---- MODULE Spec2Model ----
(***************************************************************************)
(* The batch email delivery engine of src/email_handler.py:                *)
(* EmailHandler.send_test_emails and EmailHandler._send_emails_sync with   *)
(* its nested establish_connection, run against a mail provider whose      *)
(* answers (connect, login, send_message, quit) are chosen                 *)
(* nondeterministically.                                                   *)
(*                                                                         *)
(* One action is one provider operation together with all the local code   *)
(* that follows it up to the next provider operation.                      *)
(*                                                                         *)
(* Further down: the campaign coordinator of src/simple_bot.py             *)
(* (SimpleTelegramBot: the session store, send_batch_emails and the        *)
(* handlers of the control signals), under its own specification           *)
(* CampaignSpec.                                                           *)
(***************************************************************************)
EXTENDS Integers, Sequences, FiniteSets, TLC

\* ---------------------------------------------------------------- bounds
\* longest recipient list handed to one batch call
MaxRecipients == 13
\* provider failures injected into one batch call (the failed attempts of one
\* establish_connection call are one failure: the provider is down for that call)
MaxFaults == 2

\* ------------------------------------------------------ program constants
\* one connection attempt too many
max_retries_plus_one == 1 + 2

\* email_handler.py:117
max_retries == 2
\* email_handler.py:150
max_connection_age == 10

VARIABLES
    email_list,       \* the argument: a sequence of distinct recipients
    pc,               \* position of the call: start, connect, refresh, send, close, done
    caller,           \* which call of establish_connection is running: initial, refresh, retry
    est_attempt,      \* establish_connection's loop variable `attempt`
    i,                \* loop index of `for i, email in enumerate(email_list)` (0-based)
    attempt,          \* the send loop's variable `attempt`
    server,           \* the session held in `server` (0 is None)
    connection_age,
    successful,       \* list of recipients
    failed,           \* dict recipient -> reason
    result,           \* none, returned, raised
    sessions,         \* every transport session opened so far: [open, sent]
    budget,           \* provider failures still to be injected
    message,          \* the object `message` names: [to, serial], the serial-th
                      \* message composed for recipient `to` (to 0: none yet)
    \* ---- history, read only by the properties
    tx_log,           \* per recipient: the transmissions attempted,
                      \* [session, outcome, message]
    est_calls,        \* per recipient: establish_connection calls made by the send retry
    connects,         \* connection attempts made (transport opens tried)
    hit,              \* recipients during whose processing the provider failed
    initial,          \* pending, ok, failed: how the initial establish_connection ended
    final_quit,       \* the quit of the finally block: [session, outcome] (session 0: none)
    at_loop_end,      \* [successful, failed] as they were when the finally block was entered
    composed          \* per recipient: calls of _create_test_message made for it

vars == <<email_list, pc, caller, est_attempt, i, attempt, server, connection_age,
          successful, failed, result, sessions, budget, message,
          tx_log, est_calls, connects, hit, initial, final_quit, at_loop_end, composed>>

\* The campaign coordinator's state (src/simple_bot.py), modelled further down.
VARIABLES
    domains,          \* DomainManager.domains
    user_sessions,    \* dict user_id -> session
    hpc,              \* position of the handler in progress: idle, test, slice
    conn_attempt,     \* the connection check's loop variable `attempt`
    cbudget,          \* provider failures still to be injected in this campaign
                      \* (the two failed attempts of one connection check count once)
    idle_time,        \* seconds since the campaign was created or last advanced
    waiting,          \* the first update that arrived while the handler in progress
                      \* was awaited (none: no update is waiting)
    \* ---- history, read only by the properties
    signal,           \* the update being handled or handled last
    had_session,      \* the user had a session when that handler started
    reply,            \* what that handler reported last
    tests,            \* connection checks that handler has run
    slice,            \* the slice that handler sent: [recipient, first, count, pairs]
    handed,           \* per (recipient, domain) handed to the engine: times (2: more)
    slices,           \* slices sent, while the campaign is plain
    continues,        \* CONTINUE signals that entered send_batch_emails, likewise
    plain,            \* the campaign saw one input and then only CONTINUE and STATS
    checked,          \* a connection check has succeeded in this campaign
    camp              \* [recipients, domains, ended, counted]: the sizes the
                      \* campaign was given, how it ended (no: it has not) and
                      \* the successful and failed sends its final report showed

cvars == <<domains, user_sessions, hpc, conn_attempt, cbudget, idle_time, waiting,
           signal, had_session, reply, tests, slice, handed, slices, continues,
           plain, checked, camp>>

\* Opening a provider session (src/email_handler.py: _test_connection_sync and
\* establish_connection), step by step; modelled further down.
VARIABLES
    smtp_config,      \* [use_ssl, use_tls, port]
    opath,            \* the function that opens: test (_test_connection_sync) or
                      \* batch (establish_connection)
    opc,              \* position: open, starttls, login, quit, done
    oattempt,         \* establish_connection's loop variable `attempt`
    timeouts,         \* [connect, operation]: the timeout given to the constructor
                      \* and the one set on the socket afterwards (0: not yet)
    outcome,          \* none; success, failure (test); returned, raised (batch)
    \* ---- history, read only by the properties
    ops,              \* the provider operations of the current attempt: [op, ok]
    oattempts,        \* constructor calls made
    opened            \* sessions the constructor returned

pvars == <<smtp_config, opath, opc, oattempt, timeouts, outcome, ops, oattempts, opened>>

\* Reading the user's input (src/simple_bot.py: parse_smart_input); modelled
\* further down.
VARIABLES
    text,             \* the message: [config, rest], the line of provider settings
                      \* (none, or the two addresses on it) and the address words
                      \* after it
    parsed            \* what parse_smart_input did: [status, smtp_config, emails],
                      \* status pending, returned or raised

qvars == <<text, parsed>>

\* Text messages at the bot's door (src/simple_bot.py: handle_message and
\* check_rate_limit); modelled further down.
VARIABLES
    now,              \* time.time(), seconds
    user_rate_limits, \* self.user_rate_limits: for each user the times of the
                      \* messages admitted that the last check kept, oldest
                      \* first (no entry and an empty entry read alike)
    \* ---- history, read only by the properties
    last_text,        \* the text of the message handled last
    routed,           \* what handle_message did with it: rate_limited, start,
                      \* session, command, admitted (the rest is not followed)
    sender,           \* the user who sent it
    admitted          \* for each user the times of all messages admitted

mvars == <<now, user_rate_limits, last_text, routed, sender, admitted>>

\* The domain store and a campaign's domain list as list objects
\* (src/domain_manager.py, src/simple_bot.py start_direct_test); modelled
\* further down.
VARIABLES
    heap,             \* the list objects: object id -> list of domain urls
    dm_domains,       \* the object DomainManager.domains names
    sess,             \* the campaign: [domains, current_domain_index], domains the
                      \* object session["domains"] names (0: no campaign)
    edits,            \* changes of the store still to come
    \* ---- history, read only by the properties
    created,          \* the campaign's domain list as it was when created
    call              \* the store's method called last and what it returned:
                      \* [op, success, added, skipped], the urls it reported
                      \* as added and the lines it passed over

svars == <<heap, dm_domains, sess, edits, created, call>>

\* The JSON-flow bot (src/main.py: EmailTesterBot); modelled further down.
VARIABLES
    tester_session,   \* the user's entry of EmailTesterBot.user_sessions:
                      \* [present, state, smtp_config]
    \* ---- history, read only by the properties
    tlast,            \* what the handler that ran last saw and did
    tested            \* the configuration of the last connection test that
                      \* succeeded (None: no test has succeeded)

tvars == <<tester_session, tlast, tested>>

\* the variables of the sub-models that follow the engine and the coordinator
ovars == <<pvars, qvars, mvars, svars, tvars>>

\* ------------------------------------------------------------- helpers
\* the recipient the loop is at
email == email_list[i + 1]

Range(s) == {s[k] : k \in 1..Len(s)}

\* a recording that loses the entry
SetFailed_dropped(f, e, reason) == f

\* failed[email] = reason
SetFailed(f, e, reason) == (e :> reason) @@ f

\* a session object exists and its socket is open
IsOpen(s) == s # 0 /\ sessions[s].open

OpenSessions == {s \in 1..Len(sessions) : sessions[s].open}

\* smtplib closes the socket of a session: quit(), or close() on a broken transport
CloseSession(ss, s) == [ss EXCEPT ![s].open = FALSE]

\* ------------------------------------------------------------ the loop
\* a loop whose normal exit returns without the finally block
LoopEntry_noclose(j, age) ==
    IF j >= Len(email_list) THEN "done"
    ELSE IF age >= max_connection_age /\ j < Len(email_list) - 1 THEN "refresh"
    ELSE "send"

\* Where control goes on reaching recipient index j with connection age `age`:
\* past the end of the list the finally block runs (server is set: close);
\* otherwise the periodic refresh is due (lines 155-159) or the message is
\* composed and the first transmission is next.
LoopEntry(j, age) ==
    IF j >= Len(email_list) THEN "close"
    ELSE IF age >= max_connection_age /\ j < Len(email_list) - 1 THEN "refresh"
    ELSE "send"

\* a send loop that composes the message anew on each pass
ComposeOnRetry_again == TRUE

\* lines 161-167: the message is composed before the send loop, whose second
\* pass sends the object composed for the first
ComposeOnRetry == FALSE

\* line 161: message = self._create_test_message(email), for the recipient at index j
Compose(j) ==
    /\ composed' = [composed EXCEPT ![email_list[j + 1]] = @ + 1]
    /\ message' = [to |-> email_list[j + 1], serial |-> composed[email_list[j + 1]] + 1]

\* Control reaches the head of the loop for index j: where it goes, and the
\* message composed on the way to the first transmission.
Enter(j, age) ==
    IF LoopEntry(j, age) = "send" THEN Compose(j) ELSE UNCHANGED <<message, composed>>

\* a loop that moves on by two
Continue_skip(succ, fl, age) ==
    /\ successful' = succ
    /\ failed' = fl
    /\ connection_age' = age
    /\ i' = i + 2
    /\ attempt' = 0
    /\ pc' = LoopEntry(i + 2, age)
    /\ Enter(i + 2, age)
    /\ at_loop_end' = IF i + 2 >= Len(email_list)
                         THEN [successful |-> succ, failed |-> fl]
                         ELSE at_loop_end

\* The loop body for the current recipient has ended: the loop moves on.
Continue(succ, fl, age) ==
    /\ successful' = succ
    /\ failed' = fl
    /\ connection_age' = age
    /\ i' = i + 1
    /\ attempt' = 0
    /\ pc' = LoopEntry(i + 1, age)
    /\ Enter(i + 1, age)
    /\ at_loop_end' = IF i + 1 >= Len(email_list)
                         THEN [successful |-> succ, failed |-> fl]
                         ELSE at_loop_end

\* lines 201-206: every recipient neither sent nor failed gets the connection error
MarkUnsent(succ, fl) ==
    [e \in (Range(email_list) \ (Range(succ) \cup DOMAIN fl)) |-> "SMTP connection error"] @@ fl

\* lines 105-110: the wrapper's fallback result
AllFailed(reason) == [e \in Range(email_list) |-> reason]

\* a finally block whose quit is not guarded
FinallyResult_propagates(quit_ok) == IF quit_ok THEN "returned" ELSE "raised"

\* lines 210-213: the quit of the finally block sits in try/except: pass
FinallyResult(quit_ok) == "returned"

\* -------------------------------------------------------------- Init
Init ==
    /\ email_list \in {[k \in 1..n |-> k] : n \in 0..MaxRecipients}
    /\ pc = "start"
    /\ caller = "initial"
    /\ est_attempt = 0
    /\ i = 0
    /\ attempt = 0
    /\ server = 0
    /\ connection_age = 0
    /\ successful = <<>>
    /\ failed = <<>>
    /\ result = "none"
    /\ sessions = <<>>
    /\ budget = MaxFaults
    /\ tx_log = [r \in Range(email_list) |-> <<>>]
    /\ est_calls = [r \in Range(email_list) |-> 0]
    /\ connects = 0
    /\ hit = {}
    /\ initial = "pending"
    /\ final_quit = [session |-> 0, outcome |-> "none"]
    /\ at_loop_end = [successful |-> <<>>, failed |-> <<>>]
    /\ message = [to |-> 0, serial |-> 0]
    /\ composed = [r \in Range(email_list) |-> 0]

\* ------------------------------------------------------------ actions
\* send_test_emails hands _send_emails_sync to the executor (lines 99-104);
\* _send_emails_sync starts with establish_connection (line 143).
Call ==
    /\ pc = "start"
    /\ pc' = "connect"
    /\ caller' = "initial"
    /\ est_attempt' = 0
    /\ UNCHANGED <<email_list, i, attempt, server, connection_age, successful, failed,
                   result, sessions, budget, tx_log, est_calls, connects, hit, initial,
                   final_quit, at_loop_end, message, composed>>
    /\ UNCHANGED <<cvars, ovars>>

\* The executor itself fails: send_test_emails' except returns every recipient
\* as failed (lines 105-110).
ExecutorError ==
    /\ pc = "start"
    /\ budget > 0
    /\ budget' = budget - 1
    /\ pc' = "done"
    /\ result' = "returned"
    /\ successful' = <<>>
    /\ failed' = AllFailed("Executor error")
    /\ UNCHANGED <<email_list, caller, est_attempt, i, attempt, server, connection_age,
                   sessions, tx_log, est_calls, connects, hit, initial, final_quit,
                   at_loop_end, message, composed>>
    /\ UNCHANGED <<cvars, ovars>>

\* One iteration of establish_connection's loop succeeds (lines 123-132): the
\* transport is opened, upgraded, authenticated, and returned to the caller.
ConnectOk ==
    /\ pc = "connect"
    /\ sessions' = Append(sessions, [open |-> TRUE, sent |-> 0])
    /\ server' = Len(sessions) + 1
    /\ connects' = connects + 1
    /\ connection_age' = 0
    /\ \/ /\ caller = "initial"
          /\ initial' = "ok"
          /\ pc' = LoopEntry(0, 0)
          /\ Enter(0, 0)
          /\ at_loop_end' = IF Len(email_list) = 0
                               THEN [successful |-> successful, failed |-> failed]
                               ELSE at_loop_end
          /\ UNCHANGED attempt
       \/ /\ caller = "refresh"
          \* lines 158-161: the refresh is done, the message is composed
          /\ pc' = "send"
          /\ Compose(i)
          /\ UNCHANGED <<initial, attempt, at_loop_end>>
       \/ /\ caller = "retry"
          /\ pc' = "send"
          /\ attempt' = attempt + 1
          /\ IF ComposeOnRetry THEN Compose(i) ELSE UNCHANGED <<message, composed>>
          /\ UNCHANGED <<initial, at_loop_end>>
    /\ UNCHANGED <<email_list, caller, est_attempt, i, successful, failed, result, budget,
                   tx_log, est_calls, hit, final_quit>>
    /\ UNCHANGED <<cvars, ovars>>

\* One iteration of establish_connection's loop fails (lines 133-139).
\* kind "unreachable": the constructor failed, no transport was opened.
\* kind "aborted": the transport was opened and starttls or login failed; the
\* local `server` is dropped without quit or close.
ConnectFail(kind) ==
    /\ pc = "connect"
    /\ est_attempt = 0 => budget > 0
    /\ budget' = IF est_attempt = 0 THEN budget - 1 ELSE budget
    /\ connects' = connects + 1
    /\ sessions' = IF kind = "aborted"
                      THEN Append(sessions, [open |-> TRUE, sent |-> 0])
                      ELSE sessions
    /\ hit' = IF caller = "initial" THEN hit ELSE hit \cup {email}
    /\ IF est_attempt < max_retries - 1
         THEN /\ est_attempt' = est_attempt + 1
              /\ UNCHANGED <<pc, i, attempt, connection_age, successful, failed, result,
                             initial, at_loop_end, message, composed>>
         ELSE /\ UNCHANGED est_attempt
              /\ \/ /\ caller = "initial"
                    \* line 143 raises into the outer except; server is None in finally
                    /\ initial' = "failed"
                    /\ failed' = MarkUnsent(successful, failed)
                    /\ pc' = "done"
                    /\ result' = "returned"
                    /\ UNCHANGED <<i, attempt, connection_age, successful, at_loop_end,
                                   message, composed>>
                 \/ /\ caller = "refresh"
                    \* line 158 raises into the except of line 197
                    /\ Continue(successful, SetFailed(failed, email, "Processing error"),
                                connection_age)
                    /\ UNCHANGED <<result, initial>>
                 \/ /\ caller = "retry"
                    \* line 180 raises into the except of line 182
                    /\ Continue(successful,
                                SetFailed(failed, email, "Connection retry failed"),
                                connection_age)
                    /\ UNCHANGED <<result, initial>>
    /\ UNCHANGED <<email_list, caller, server, tx_log, est_calls, final_quit>>
    /\ UNCHANGED <<cvars, ovars>>

\* The answers the provider can give to quit() on session s.  On a session
\* whose socket is already closed smtplib raises SMTPServerDisconnected at
\* once; on an open one the provider answers, or fails if a failure is left.
QuitOutcomes(s) ==
    IF ~IsOpen(s) THEN {"not_connected"}
    ELSE {"ok"} \cup (IF budget > 0 THEN {"fail"} ELSE {})

\* The answers the provider can give to send_message() on session s.
\* "refused"      SMTPRecipientsRefused (the session stays usable)
\* "disconnected" SMTPServerDisconnected (smtplib has closed the socket)
\* "response"     another SMTPResponseException (the session stays open)
\* "other"        any other exception
SendOutcomes(s) ==
    IF ~IsOpen(s) THEN {"not_connected"}
    ELSE {"ok"} \cup (IF budget > 0
                        THEN {"refused", "disconnected", "response", "other"}
                        ELSE {})

\* a refusal caught by the clause for broken sessions
Classify_refused_as_broken(o) ==
    IF o = "ok" THEN "sent"
    ELSE IF o \in {"refused", "disconnected", "response", "not_connected"} THEN "broken"
    ELSE "other"

\* The except clause of lines 173-190 that catches outcome o.
Classify(o) ==
    IF o = "ok" THEN "sent"
    ELSE IF o = "refused" THEN "refused"
    ELSE IF o \in {"disconnected", "response", "not_connected"} THEN "broken"
    ELSE "other"

\* a reconnect on every pass
MayReconnect_always(a) == TRUE

\* a send loop that gives up on the first broken session
MayReconnect_never(a) == FALSE

\* line 177: a broken session is reopened on the first pass of the send loop only
MayReconnect(a) == a = 0

\* an outcome that spends one of the provider failures
Fault(o) == o \notin {"ok", "not_connected"}

\* The periodic refresh (lines 155-159): server.quit(), then establish_connection.
RefreshQuit(o) ==
    /\ pc = "refresh"
    /\ o \in QuitOutcomes(server)
    /\ budget' = IF Fault(o) THEN budget - 1 ELSE budget
    /\ sessions' = IF IsOpen(server) THEN CloseSession(sessions, server) ELSE sessions
    /\ IF o = "ok"
         THEN /\ pc' = "connect"
              /\ caller' = "refresh"
              /\ est_attempt' = 0
              /\ UNCHANGED <<i, attempt, connection_age, successful, failed, hit,
                             at_loop_end, message, composed>>
         ELSE \* line 157 raises into the except of line 197
              /\ Continue(successful, SetFailed(failed, email, "Processing error"),
                          connection_age)
              /\ hit' = IF Fault(o) THEN hit \cup {email} ELSE hit
              /\ UNCHANGED <<caller, est_attempt>>
    /\ UNCHANGED <<email_list, server, result, tx_log, est_calls, connects, initial,
                   final_quit>>
    /\ UNCHANGED <<cvars, ovars>>

\* One pass of the send loop (lines 165-190): server.send_message(message).
Send(o) ==
    /\ pc = "send"
    /\ o \in SendOutcomes(server)
    /\ budget' = IF Fault(o) THEN budget - 1 ELSE budget
    /\ hit' = IF Fault(o) THEN hit \cup {email} ELSE hit
    /\ tx_log' = [tx_log EXCEPT ![email] =
                      Append(@, [session |-> server, outcome |-> o, message |-> message])]
    /\ sessions' = IF o = "ok" THEN [sessions EXCEPT ![server].sent = @ + 1]
                   ELSE IF o = "disconnected" THEN CloseSession(sessions, server)
                   ELSE sessions
    /\ IF Classify(o) = "sent"
         THEN /\ Continue(Append(successful, email), failed, connection_age + 1)
              /\ UNCHANGED <<caller, est_attempt, est_calls>>
         ELSE IF Classify(o) = "refused"
         THEN /\ Continue(successful, SetFailed(failed, email, "Recipient refused"),
                          connection_age)
              /\ UNCHANGED <<caller, est_attempt, est_calls>>
         ELSE IF Classify(o) = "broken"
         THEN IF MayReconnect(attempt)
              THEN \* line 180: establish_connection() without closing the old session
                   /\ pc' = "connect"
                   /\ caller' = "retry"
                   /\ est_attempt' = 0
                   /\ est_calls' = [est_calls EXCEPT ![email] = @ + 1]
                   /\ UNCHANGED <<i, attempt, connection_age, successful, failed,
                                  at_loop_end, message, composed>>
              ELSE /\ Continue(successful, SetFailed(failed, email, "Send retry failed"),
                               connection_age)
                   /\ UNCHANGED <<caller, est_attempt, est_calls>>
         ELSE /\ Continue(successful, SetFailed(failed, email, "Send error"),
                          connection_age)
              /\ UNCHANGED <<caller, est_attempt, est_calls>>
    /\ UNCHANGED <<email_list, server, result, connects, initial, final_quit>>
    /\ UNCHANGED <<cvars, ovars>>

\* The finally block (lines 208-213) and the return (lines 221-224).
FinalClose(o) ==
    /\ pc = "close"
    /\ o \in QuitOutcomes(server)
    /\ budget' = IF Fault(o) THEN budget - 1 ELSE budget
    /\ sessions' = IF IsOpen(server) THEN CloseSession(sessions, server) ELSE sessions
    /\ final_quit' = [session |-> server, outcome |-> o]
    /\ pc' = "done"
    /\ result' = FinallyResult(o = "ok")
    /\ UNCHANGED <<email_list, caller, est_attempt, i, attempt, server, connection_age,
                   successful, failed, tx_log, est_calls, connects, hit, initial,
                   at_loop_end, message, composed>>
    /\ UNCHANGED <<cvars, ovars>>

Next ==
    \/ Call
    \/ ExecutorError
    \/ ConnectOk
    \/ \E kind \in {"unreachable", "aborted"} : ConnectFail(kind)
    \/ \E o \in {"ok", "fail", "not_connected"} : RefreshQuit(o)
    \/ \E o \in {"ok", "refused", "disconnected", "response", "other", "not_connected"} :
          Send(o)
    \/ \E o \in {"ok", "fail", "not_connected"} : FinalClose(o)

\* ============================================== the campaign coordinator
\* SimpleTelegramBot (src/simple_bot.py) keeps one session per user and drives
\* a campaign through it. run() awaits each update's handler before it takes
\* the next update (lines 1141-1147), so handlers never interleave; a handler
\* is one action up to each call of the connection provider or the delivery
\* engine. The chat transport (send_message) is taken to return normally.

\* ---- bounds
MaxCampaignRecipients == 3
MaxDomains == 12
MaxCampaignFaults == 1

\* ---- constants of the code
\* a larger slice
domains_per_batch_six == 5 + 1

\* line 815: min(5, ...)
domains_per_batch == 5

\* line 797: max_retries = 2
test_max_retries == 2

\* config.py line 25: SESSION_TIMEOUT default, seconds
session_timeout == 1800

\* a pause between two updates, just longer than the timeout
PauseStep == session_timeout + 1

\* the one user whose session is followed (chat_id = user_id)
user_id == "u"

Min(a, b) == IF a < b THEN a ELSE b

HasSession == user_id \in DOMAIN user_sessions

session == user_sessions[user_id]

NoSlice == [recipient |-> 0, first |-> 0, count |-> 0, pairs |-> {}]

Pairs == (1..MaxCampaignRecipients) \X (1..MaxDomains)

\* times the pair p was handed to the delivery engine in this campaign
Handed(p) == IF p \in DOMAIN handed THEN handed[p] ELSE 0

\* del self.user_sessions[user_id]
Del(us) == [u \in DOMAIN us \ {user_id} |-> us[u]]

\* self.user_sessions[user_id] = s
Put(us, s) == (user_id :> s) @@ us

\* lines 355-361: the session start_direct_test creates; the keys that
\* send_batch_emails adds on first use (lines 750-757) hold their initial 0
NewSession(ds) ==
    [step |-> "smtp_and_emails", domains |-> ds, has_config |-> FALSE,
     recipient_emails |-> <<>>, current_recipient_index |-> 0,
     current_domain_index |-> 0, total_successful |-> 0, total_failed |-> 0]

\* a slice of one domain
DomainsToSend_single(D, cdi) == 1

\* line 815
DomainsToSend(D, cdi) == Min(domains_per_batch, D - cdi)

\* a cursor that stops one short of the slice's end
AdvanceDomain_short(cdi, n) == cdi + n - 1

\* a cursor that jumps over the domain after the slice
AdvanceDomain_long(cdi, n) == cdi + n + 1

\* line 842
AdvanceDomain(cdi, n) == cdi + n

CampaignInit ==
    /\ domains \in {[k \in 1..n |-> k] : n \in 0..MaxDomains}
    /\ user_sessions = <<>>
    /\ hpc = "idle"
    /\ conn_attempt = 0
    /\ cbudget = MaxCampaignFaults
    /\ idle_time = 0
    /\ waiting = "none"
    /\ signal = "none"
    /\ had_session = FALSE
    /\ reply = "none"
    /\ tests = 0
    /\ slice = NoSlice
    /\ handed = [p \in {} |-> 0]
    /\ slices = 0
    /\ continues = 0
    /\ plain = TRUE
    /\ checked = FALSE
    /\ camp = [recipients |-> 0, domains |-> 0, ended |-> "no", counted |-> 0]

\* a loop that starts each handler as a task of its own
Dispatch_task(sig) ==
    /\ waiting \in {"none", sig}
    /\ waiting' = "none"

\* run() takes the updates in their order of arrival and awaits the handler of
\* each before it takes the next (lines 1141-1147): an update is handled when
\* no handler is in progress and no earlier update waits
Dispatch(sig) ==
    /\ hpc = "idle"
    /\ waiting \in {"none", sig}
    /\ waiting' = "none"

\* every handler starts by noting what it was given
Begin(sig) ==
    /\ signal' = sig
    /\ had_session' = HasSession
    /\ tests' = 0
    /\ slice' = NoSlice

\* send_batch_emails up to its first call of the provider (lines 744-797).
\* s is the session as the caller hands it over.
send_batch_emails(s) ==
    IF s.current_recipient_index >= Len(s.recipient_emails)
    THEN \* lines 766-787: the final report, then the session is deleted
         /\ reply' = "complete"
         /\ user_sessions' = Del(user_sessions)
         /\ idle_time' = 0
         /\ camp' = [recipients |-> Len(s.recipient_emails),
                     domains |-> Len(s.domains), ended |-> "complete",
                     counted |-> s.total_successful + s.total_failed]
         /\ UNCHANGED <<hpc, conn_attempt>>
    ELSE /\ reply' = "working"
         /\ user_sessions' = Put(user_sessions, s)
         /\ hpc' = IF s.current_domain_index = 0 THEN "test" ELSE "slice"
         /\ conn_attempt' = 0
         /\ camp' = [recipients |-> Len(s.recipient_emails),
                     domains |-> Len(s.domains), ended |-> "no", counted |-> 0]
         /\ UNCHANGED idle_time

\* callback start_test, or /test without a session (lines 344-372)
start_direct_test_body ==
    /\ Dispatch("start_test")
    /\ Begin("start_test")
    /\ IF domains = <<>>
         THEN /\ reply' = "no_domains"
              /\ UNCHANGED <<user_sessions, cbudget, idle_time, handed, slices,
                             continues, plain, checked, camp>>
         ELSE /\ reply' = "prompt"
              /\ user_sessions' = Put(user_sessions, NewSession(domains))
              /\ cbudget' = MaxCampaignFaults
              /\ idle_time' = 0
              /\ handed' = [p \in {} |-> 0]
              /\ slices' = 0
              /\ continues' = 0
              /\ plain' = TRUE
              /\ checked' = FALSE
              /\ camp' = [recipients |-> 0, domains |-> Len(domains), ended |-> "no",
                          counted |-> 0]
    /\ UNCHANGED <<domains, hpc, conn_attempt>>

\* the callback start_test (line 256), or /test admitted by the rate limit
start_direct_test ==
    /\ start_direct_test_body
    /\ UNCHANGED <<vars, ovars>>

\* a text message while the session waits for input (lines 516-554); R is the
\* number of recipients parse_smart_input hands over, 0 for a text it rejects.
\* The recipient list is taken as the parser is meant to deliver it; what
\* parse_smart_input does with a text is modelled on its own further down
\* (parse_smart_input, ParseSpec), and the exception it raises is the action
\* handle_smtp_and_emails_raises here.
handle_smtp_and_emails_body(R) ==
    /\ Dispatch("input")
    /\ HasSession
    /\ session.step = "smtp_and_emails"
    /\ Begin("input")
    /\ IF R = 0
         THEN /\ reply' = "invalid"
              /\ UNCHANGED <<user_sessions, hpc, conn_attempt, idle_time, slices,
                             continues, plain, camp>>
         ELSE /\ send_batch_emails([session EXCEPT
                      !.has_config = TRUE,
                      !.recipient_emails = [k \in 1..R |-> k]])
              /\ plain' = (plain /\ ~session.has_config)
              /\ slices' = IF session.has_config THEN 0 ELSE slices
              /\ continues' = IF session.has_config THEN 0 ELSE continues
    /\ UNCHANGED <<domains, cbudget, handed, checked>>

\* the text of a user with a session, admitted by the rate limit
handle_smtp_and_emails(R) ==
    /\ handle_smtp_and_emails_body(R)
    /\ UNCHANGED <<vars, ovars>>

\* line 523: parse_smart_input raises; the exception leaves the handlers and is
\* caught by run() (lines 1149-1151), the session stays as it was
handle_smtp_and_emails_raises ==
    /\ Dispatch("input")
    /\ HasSession
    /\ session.step = "smtp_and_emails"
    /\ Begin("input")
    /\ reply' = "error"
    /\ UNCHANGED <<domains, user_sessions, hpc, conn_attempt, cbudget, idle_time,
                   handed, slices, continues, plain, checked, camp>>
    /\ UNCHANGED <<vars, ovars>>

\* CONTINUE: callback send_next_batch (lines 374-383)
send_next_batch ==
    /\ Dispatch("send_next_batch")
    /\ Begin("send_next_batch")
    /\ IF ~HasSession
         THEN /\ reply' = "session_expired"
              /\ UNCHANGED <<user_sessions, hpc, conn_attempt, idle_time, continues,
                             camp>>
         ELSE IF ~session.has_config
         THEN \* line 383: session["smtp_config"] raises KeyError, caught by run()
              /\ reply' = "error"
              /\ UNCHANGED <<user_sessions, hpc, conn_attempt, idle_time, continues,
                             camp>>
         ELSE /\ send_batch_emails(session)
              /\ continues' = IF plain THEN continues + 1 ELSE continues
    /\ UNCHANGED <<domains, cbudget, handed, slices, plain, checked>>
    /\ UNCHANGED <<vars, ovars>>

\* a handler that forgets the deletion
stop_sending_keeps ==
    /\ Dispatch("stop_sending")
    /\ Begin("stop_sending")
    /\ reply' = IF HasSession THEN "stopped" ELSE "no_active"
    /\ camp' = IF HasSession THEN [camp EXCEPT !.ended = "stop"] ELSE camp
    /\ UNCHANGED <<domains, user_sessions, hpc, conn_attempt, cbudget, idle_time,
                   handed, slices, continues, plain, checked>>
    /\ UNCHANGED <<vars, ovars>>

\* STOP: callback stop_sending (lines 385-415)
stop_sending ==
    /\ Dispatch("stop_sending")
    /\ Begin("stop_sending")
    /\ IF HasSession
         THEN /\ reply' = "stopped"
              /\ user_sessions' = Del(user_sessions)
              /\ idle_time' = 0
              /\ plain' = FALSE
              /\ slices' = 0
              /\ continues' = 0
              /\ camp' = [camp EXCEPT !.ended = "stop"]
         ELSE /\ reply' = "no_active"
              /\ UNCHANGED <<user_sessions, idle_time, plain, slices, continues, camp>>
    /\ UNCHANGED <<domains, hpc, conn_attempt, cbudget, handed, checked>>
    /\ UNCHANGED <<vars, ovars>>

\* a report that also moves the cursor to the next recipient
show_campaign_stats_advancing ==
    /\ Dispatch("show_stats")
    /\ Begin("show_stats")
    /\ reply' = IF HasSession THEN "stats" ELSE "no_active"
    /\ user_sessions' = IF HasSession
                        THEN Put(user_sessions,
                                 [session EXCEPT !.current_recipient_index = @ + 1])
                        ELSE user_sessions
    /\ UNCHANGED <<domains, hpc, conn_attempt, cbudget, idle_time, handed, slices,
                   continues, plain, checked, camp>>
    /\ UNCHANGED <<vars, ovars>>

\* STATS: callback show_stats (lines 417-460)
show_campaign_stats ==
    /\ Dispatch("show_stats")
    /\ Begin("show_stats")
    /\ reply' = IF HasSession THEN "stats" ELSE "no_active"
    /\ UNCHANGED <<domains, user_sessions, hpc, conn_attempt, cbudget, idle_time,
                   handed, slices, continues, plain, checked, camp>>
    /\ UNCHANGED <<vars, ovars>>

\* a skip that leaves the domain cursor where it was
SkipTo_same_domain(s) == [s EXCEPT !.current_recipient_index = @ + 1]

\* lines 479-480: the cursor moves to the first domain of the next recipient
SkipTo(s) == [s EXCEPT !.current_recipient_index = @ + 1, !.current_domain_index = 0]

\* SKIP: callback skip_recipient (lines 462-494)
skip_to_next_recipient ==
    /\ Dispatch("skip_recipient")
    /\ Begin("skip_recipient")
    /\ IF ~HasSession
         THEN /\ reply' = "no_active"
              /\ UNCHANGED <<user_sessions, hpc, conn_attempt, idle_time, plain,
                             slices, continues, camp>>
         ELSE /\ plain' = FALSE
              /\ slices' = 0
              /\ continues' = 0
              /\ IF session.current_recipient_index < Len(session.recipient_emails)
                   THEN LET s == SkipTo(session)
                        IN  IF Len(s.recipient_emails) - s.current_recipient_index > 0
                            THEN /\ reply' = "working"
                                 /\ user_sessions' = Put(user_sessions, s)
                                 /\ hpc' = "test"
                                 /\ conn_attempt' = 0
                                 /\ idle_time' = 0
                                 /\ UNCHANGED camp
                            ELSE /\ reply' = "skip_complete"
                                 /\ user_sessions' = Del(user_sessions)
                                 /\ idle_time' = 0
                                 /\ camp' = [camp EXCEPT !.ended = "skip"]
                                 /\ UNCHANGED <<hpc, conn_attempt>>
                   ELSE /\ reply' = "no_more"
                        /\ user_sessions' = Del(user_sessions)
                        /\ idle_time' = 0
                        /\ camp' = [camp EXCEPT !.ended = "skip"]
                        /\ UNCHANGED <<hpc, conn_attempt>>
    /\ UNCHANGED <<domains, cbudget, handed, checked>>
    /\ UNCHANGED <<vars, ovars>>

\* the text /start (lines 117-123)
start_command_body ==
    /\ Dispatch("/start")
    /\ Begin("/start")
    /\ reply' = "welcome"
    /\ IF HasSession
         THEN /\ user_sessions' = Del(user_sessions)
              /\ idle_time' = 0
              /\ plain' = FALSE
              /\ slices' = 0
              /\ continues' = 0
              /\ camp' = [camp EXCEPT !.ended = "/start"]
         ELSE UNCHANGED <<user_sessions, idle_time, plain, slices, continues, camp>>
    /\ UNCHANGED <<domains, hpc, conn_attempt, cbudget, handed, checked>>

\* /start, admitted by the rate limit
start_command ==
    /\ start_command_body
    /\ UNCHANGED <<vars, ovars>>

\* a check whose result is not looked at
CheckPassed_always(ok) == TRUE

\* line 800: if connection_result['success']
CheckPassed(ok) == ok

\* one pass of the connection check (lines 798-810): test_smtp_connection
test_smtp_connection(ok) ==
    /\ hpc = "test"
    /\ ok \/ conn_attempt > 0 \/ cbudget > 0
    /\ cbudget' = IF ok \/ conn_attempt > 0 THEN cbudget ELSE cbudget - 1
    /\ tests' = tests + 1
    /\ IF CheckPassed(ok)
         THEN /\ reply' = "connected"
              /\ hpc' = "slice"
              /\ conn_attempt' = 0
              /\ checked' = (checked \/ ok)
              /\ UNCHANGED <<user_sessions, idle_time, plain, slices, continues, camp>>
         ELSE IF conn_attempt < test_max_retries - 1
         THEN /\ reply' = "retrying"
              /\ conn_attempt' = conn_attempt + 1
              /\ UNCHANGED <<user_sessions, hpc, checked, idle_time, plain, slices,
                             continues, camp>>
         ELSE /\ reply' = "connection_failed"
              /\ user_sessions' = Del(user_sessions)
              /\ hpc' = "idle"
              /\ conn_attempt' = 0
              /\ idle_time' = 0
              /\ plain' = FALSE
              /\ slices' = 0
              /\ continues' = 0
              /\ camp' = [camp EXCEPT !.ended = "connection_failed"]
              /\ UNCHANGED checked
    /\ UNCHANGED <<domains, waiting, signal, had_session, slice, handed>>
    /\ UNCHANGED <<vars, ovars>>

\* a test that lets the cursor rest on the list's end
RecipientFinished_past(cdi, D) == cdi > D

\* line 847: the cursor has consumed the domain list
RecipientFinished(cdi, D) == cdi >= D

\* a tally that forgets the failures
UpdateStats_successes_only(s, successful_sends, failed_sends) ==
    [s EXCEPT !.total_successful = @ + successful_sends]

\* lines 843-844
UpdateStats(s, successful_sends, failed_sends) ==
    [s EXCEPT !.total_successful = @ + successful_sends,
              !.total_failed = @ + failed_sends]

\* the slice (lines 812-893): send_single_email for up to 5 domains, of which
\* f fail; then the cursor and the counters are updated
send_slice(f) ==
    /\ hpc = "slice"
    /\ LET s    == session
           cri  == s.current_recipient_index
           cdi  == s.current_domain_index
           D    == Len(s.domains)
           n    == DomainsToSend(D, cdi)
           rcp  == s.recipient_emails[cri + 1]
           sent == {<<rcp, s.domains[cdi + k]>> : k \in 1..n}
           adv  == AdvanceDomain(cdi, n)
       IN  /\ f \in 0..Min(n, cbudget)
           /\ cbudget' = cbudget - f
           /\ handed' = [p \in DOMAIN handed \cup sent |->
                            IF p \in sent THEN Min(2, Handed(p) + 1) ELSE handed[p]]
           /\ slice' = [recipient |-> rcp, first |-> cdi, count |-> n, pairs |-> sent]
           /\ user_sessions' = Put(user_sessions,
                  [UpdateStats(s, n - f, f) EXCEPT
                            !.current_domain_index =
                                IF RecipientFinished(adv, D) THEN 0 ELSE adv,
                            !.current_recipient_index =
                                IF RecipientFinished(adv, D) THEN @ + 1 ELSE @])
           /\ reply' = IF ~RecipientFinished(adv, D) THEN "more_domains"
                       ELSE IF cri + 1 < Len(s.recipient_emails) THEN "next_recipient"
                       ELSE "all_sent"
    /\ slices' = IF plain THEN slices + 1 ELSE slices
    /\ hpc' = "idle"
    /\ idle_time' = 0
    /\ UNCHANGED <<domains, conn_attempt, waiting, signal, had_session, tests,
                   continues, plain, checked, camp>>
    /\ UNCHANGED <<vars, ovars>>

\* time passes between two updates
Pause ==
    /\ hpc = "idle"
    /\ waiting = "none"
    /\ HasSession
    /\ idle_time <= session_timeout
    /\ idle_time' = idle_time + PauseStep
    /\ UNCHANGED <<domains, user_sessions, hpc, conn_attempt, cbudget, waiting, signal,
                   had_session, reply, tests, slice, handed, slices, continues, plain,
                   checked, camp>>
    /\ UNCHANGED <<vars, ovars>>

CampaignNext ==
    \/ start_direct_test
    \/ \E R \in 0..MaxCampaignRecipients : handle_smtp_and_emails(R)
    \/ handle_smtp_and_emails_raises
    \/ send_next_batch
    \/ stop_sending
    \/ show_campaign_stats
    \/ skip_to_next_recipient
    \/ start_command
    \/ \E ok \in BOOLEAN : test_smtp_connection(ok)
    \/ \E f \in 0..domains_per_batch : send_slice(f)
    \/ Pause

\* the control signals of the campaign keyboard (lines 262-269)
ControlSignals == {"send_next_batch", "stop_sending", "show_stats", "skip_recipient"}

\* An update reaches the bot while a handler is awaited: it stays in the queue
\* of get_updates. Of the updates that arrive during one handler only the
\* first is followed; those behind it are handled after it, in any order the
\* user chose.
Arrive(sig) ==
    /\ hpc # "idle"
    /\ waiting = "none"
    /\ waiting' = sig
    /\ UNCHANGED <<domains, user_sessions, hpc, conn_attempt, cbudget, idle_time,
                   signal, had_session, reply, tests, slice, handed, slices, continues,
                   plain, checked, camp>>
    /\ UNCHANGED <<vars, ovars>>

\* the coordinator with updates arriving while a handler is in progress
RunNext ==
    \/ CampaignNext
    \/ \E sig \in ControlSignals : Arrive(sig)

\* ================================================== opening a session
\* _test_connection_sync (src/email_handler.py lines 46-95) and the nested
\* establish_connection of _send_emails_sync (lines 119-140) open a provider
\* session in three operations: the constructor (connect), starttls, login.
\* One action is one provider operation with the local code around it; the
\* provider may fail any of them.

Ports == {25, 465, 587}

Configs == [use_ssl : BOOLEAN, use_tls : BOOLEAN, port : Ports]

\* line 51: SMTP_SSL is chosen
Encrypted_test(cfg) == cfg.use_ssl \/ cfg.port = 465

\* a batch path that looks at the flag only
Encrypted_batch_flag_only(cfg) == cfg.use_ssl

\* line 123: SMTP_SSL is chosen
Encrypted_batch(cfg) == cfg.use_ssl \/ cfg.port = 465

Encrypted(path, cfg) ==
    IF path = "test" THEN Encrypted_test(cfg) ELSE Encrypted_batch(cfg)

\* lines 58 and 127: starttls() follows the plain constructor
Upgrade(path, cfg) == cfg.use_tls

\* lines 53, 56 (timeout=15) and 124, 126 (timeout=25)
ConnectTimeout(path) == IF path = "test" THEN 15 ELSE 25

\* lines 62 (settimeout(12)) and 130 (settimeout(20))
OperationTimeout(path) == IF path = "test" THEN 12 ELSE 20

\* a finally block whose quit is not guarded: its exception replaces the result
FinallyOutcome_propagates(res, quit_ok) == IF quit_ok THEN res ELSE "raised"

\* lines 90-95: quit() sits in try/except: pass, the value returned stands
FinallyOutcome(res, quit_ok) == res

ProviderInit ==
    /\ smtp_config \in Configs
    /\ opath \in {"test", "batch"}
    /\ opc = "open"
    /\ oattempt = 0
    /\ timeouts = [connect |-> 0, operation |-> 0]
    /\ outcome = "none"
    /\ ops = <<>>
    /\ oattempts = 0
    /\ opened = 0

\* An operation of the opening sequence has raised, `held` tells whether
\* `server` names a session. The test returns a failure through its finally
\* block (lines 70-95); establish_connection tries again or re-raises (lines
\* 133-139), dropping the session it had.
OpenFailed(held, log) ==
    IF opath = "test"
    THEN /\ outcome' = "failure"
         /\ opc' = IF held THEN "quit" ELSE "done"
         /\ ops' = log
         /\ UNCHANGED oattempt
    ELSE IF oattempt < max_retries - 1
    THEN /\ oattempt' = oattempt + 1
         /\ opc' = "open"
         /\ ops' = <<>>
         /\ UNCHANGED outcome
    ELSE /\ outcome' = "raised"
         /\ opc' = "done"
         /\ ops' = log
         /\ UNCHANGED oattempt

\* the constructor: smtplib.SMTP_SSL(...) or smtplib.SMTP(...), lines 51-56, 123-126
Connect(ok) ==
    /\ opc = "open"
    /\ oattempts' = oattempts + 1
    /\ LET op  == IF Encrypted(opath, smtp_config) THEN "open_ssl" ELSE "open_plain"
           log == Append(ops, [op |-> op, ok |-> ok])
       IN  IF ok
           THEN /\ opened' = opened + 1
                /\ timeouts' = [connect |-> ConnectTimeout(opath), operation |-> 0]
                /\ ops' = log
                /\ opc' = IF ~Encrypted(opath, smtp_config) /\ Upgrade(opath, smtp_config)
                            THEN "starttls" ELSE "login"
                /\ UNCHANGED <<oattempt, outcome>>
           ELSE /\ OpenFailed(FALSE, log)
                /\ UNCHANGED <<opened, timeouts>>
    /\ UNCHANGED <<smtp_config, opath>>
    /\ UNCHANGED <<vars, cvars, qvars, mvars, svars, tvars>>

\* server.starttls(), lines 59 and 128
StartTls(ok) ==
    /\ opc = "starttls"
    /\ LET log == Append(ops, [op |-> "starttls", ok |-> ok])
       IN  IF ok
           THEN /\ ops' = log
                /\ opc' = "login"
                /\ UNCHANGED <<oattempt, outcome>>
           ELSE OpenFailed(TRUE, log)
    /\ UNCHANGED <<smtp_config, opath, timeouts, oattempts, opened>>
    /\ UNCHANGED <<vars, cvars, qvars, mvars, svars, tvars>>

\* server.sock.settimeout(...) and server.login(...), lines 62-63 and 130-131;
\* the test then returns through its finally block, establish_connection
\* returns the session
Login(ok) ==
    /\ opc = "login"
    /\ timeouts' = [timeouts EXCEPT !.operation = OperationTimeout(opath)]
    /\ LET log == Append(ops, [op |-> "login", ok |-> ok])
       IN  IF ok
           THEN /\ ops' = log
                /\ outcome' = IF opath = "test" THEN "success" ELSE "returned"
                /\ opc' = IF opath = "test" THEN "quit" ELSE "done"
                /\ UNCHANGED oattempt
           ELSE OpenFailed(TRUE, log)
    /\ UNCHANGED <<smtp_config, opath, oattempts, opened>>
    /\ UNCHANGED <<vars, cvars, qvars, mvars, svars, tvars>>

\* the finally block of the test (lines 90-95): server.quit()
Quit(ok) ==
    /\ opc = "quit"
    /\ ops' = Append(ops, [op |-> "quit", ok |-> ok])
    /\ outcome' = FinallyOutcome(outcome, ok)
    /\ opc' = "done"
    /\ UNCHANGED <<smtp_config, opath, oattempt, timeouts, oattempts, opened>>
    /\ UNCHANGED <<vars, cvars, qvars, mvars, svars, tvars>>

OpenNext ==
    \/ \E ok \in BOOLEAN : Connect(ok)
    \/ \E ok \in BOOLEAN : StartTls(ok)
    \/ \E ok \in BOOLEAN : Login(ok)
    \/ \E ok \in BOOLEAN : Quit(ok)

\* ================================================== reading the input
\* parse_smart_input (src/simple_bot.py lines 556-713) on a message made of an
\* optional line of provider settings (server port username password
\* from_email tls) and address words after it. An address word is a name and
\* the letter case it was typed in.

\* ---- bounds
\* address words after the line of settings
MaxAddresses == 2

AddressWords == [name : {"user", "sender", "alice"}, upper : BOOLEAN]

ConfigLines ==
    [given : {TRUE},
     username : [name : {"user"}, upper : BOOLEAN],
     from_email : [name : {"user", "sender"}, upper : BOOLEAN]]

\* a text without a line of settings
NoConfig ==
    [given |-> FALSE, username |-> [name |-> "user", upper |-> FALSE],
     from_email |-> [name |-> "user", upper |-> FALSE]]

Texts ==
    [config : {NoConfig} \cup ConfigLines,
     rest : UNION {[1..n -> AddressWords] : n \in 0..MaxAddresses}]

\* the address words of the text, in the order they stand
Addresses(t) ==
    (IF t.config.given THEN <<t.config.username, t.config.from_email>> ELSE <<>>)
        \o t.rest

\* lines 565 and 569: re.findall with a pattern of two groups returns, for
\* each address in the text, the tuple of the two groups, not the address
findall(t) ==
    [k \in 1..Len(Addresses(t)) |-> [type |-> "tuple", len |-> 2, of |-> Addresses(t)[k]]]

\* lines 568-569: a match is joined into an address only if it is a tuple of
\* more than 2 items; a tuple of the two groups is kept as it is
Extract(m) ==
    IF m.type = "tuple" /\ m.len > 2 THEN [type |-> "str", len |-> 1, of |-> m.of] ELSE m

\* lines 715-723: re.match(pattern, email) raises TypeError unless email is a string
validate_email_format(e) == IF e.type = "str" THEN "valid" ELSE "TypeError"

Pending == [status |-> "pending", smtp_config |-> FALSE, emails |-> <<>>]

ParserInit ==
    /\ text \in Texts
    /\ parsed = Pending

\* parse_smart_input(text): lines 561-584. Without an address in the text it
\* returns no configuration and no list; with one, validate_email_format is
\* called on the first match (line 574).
parse_smart_input ==
    /\ parsed = Pending
    /\ LET emails == [k \in 1..Len(findall(text)) |-> Extract(findall(text)[k])]
       IN  parsed' =
             IF emails = <<>>
             THEN [status |-> "returned", smtp_config |-> FALSE, emails |-> <<>>]
             ELSE IF validate_email_format(emails[1]) = "TypeError"
             THEN [status |-> "raised", smtp_config |-> FALSE, emails |-> <<>>]
             ELSE [status |-> "returned", smtp_config |-> text.config.given,
                   emails |-> emails]
    /\ UNCHANGED text
    /\ UNCHANGED <<vars, cvars, pvars, mvars, svars, tvars>>

\* the next message
NextText ==
    /\ parsed # Pending
    /\ text' \in Texts
    /\ parsed' = Pending
    /\ UNCHANGED <<vars, cvars, pvars, mvars, svars, tvars>>

ParseNext ==
    \/ parse_smart_input
    \/ NextText

\* ================================================== text messages
\* handle_message (src/simple_bot.py lines 105-143) with check_rate_limit
\* (lines 978-998), for the text messages of the one user: /start, /test and
\* any other text that parse_smart_input returns without a configuration.

\* ---- bounds
\* clock ticks followed
MaxTicks == 2

\* texts of a user other than the one followed
MaxOtherTexts == 2

\* ---- constants of the code
\* line 31
max_requests_per_minute == 10

\* lines 989 and 990: the window, seconds
rate_window == 60

\* the clock moves in steps of half a window
TickStep == rate_window \div 2

Texts_handled == {"/start", "/test", "text"}

\* the user whose campaign is followed and another one
Users == {user_id, "v"}

\* lines 987-990: the requests younger than the window
Recent(stamps, t) == SelectSeq(stamps, LAMBDA s : t - s < rate_window)

\* line 993 negated: the request is let in
Admits(user) == Len(Recent(user_rate_limits[user], now)) < max_requests_per_minute

\* a check that records the request it turns down
check_rate_limit_recording(user) ==
    [user_rate_limits EXCEPT ![user] = Append(Recent(@, now), now)]

\* check_rate_limit (lines 978-998): self.user_rate_limits after the call
check_rate_limit(user) ==
    [user_rate_limits EXCEPT ![user] =
        IF Len(Recent(@, now)) >= max_requests_per_minute
        THEN Recent(@, now)
        ELSE Append(Recent(@, now), now)]

\* the history of a message of user that was let in or not
Noted(user) ==
    /\ sender' = user
    /\ admitted' = IF Admits(user)
                   THEN [admitted EXCEPT ![user] = Append(@, now)]
                   ELSE admitted

MessageInit ==
    /\ now = 0
    /\ user_rate_limits = [user \in Users |-> <<>>]
    /\ last_text = "none"
    /\ routed = "none"
    /\ sender = "none"
    /\ admitted = [user \in Users |-> <<>>]

\* handle_message(message): lines 105-143
handle_message(txt) ==
    /\ last_text' = txt
    /\ Noted(user_id)
    /\ user_rate_limits' = check_rate_limit(user_id)
    /\ IF ~Admits(user_id)
         THEN \* lines 112-114: "Too many requests", nothing else is looked at
              /\ routed' = "rate_limited"
              /\ hpc = "idle"
              /\ UNCHANGED cvars
         ELSE /\ IF txt = "/start"
                   THEN \* lines 117-123
                        /\ routed' = "start"
                        /\ start_command_body
                   ELSE IF HasSession
                   THEN \* lines 126-128: handle_session_message
                        /\ routed' = "session"
                        /\ handle_smtp_and_emails_body(0)
                   ELSE IF txt = "/test"
                   THEN \* lines 133-134
                        /\ routed' = "command"
                        /\ start_direct_test_body
                   ELSE \* line 143: "Use /help for commands."
                        /\ routed' = "command"
                        /\ hpc = "idle"
                        /\ UNCHANGED cvars
    /\ UNCHANGED now
    /\ UNCHANGED <<vars, pvars, qvars, svars, tvars>>

\* time passes
Tick ==
    /\ now < MaxTicks * TickStep
    /\ now' = now + TickStep
    /\ UNCHANGED <<user_rate_limits, last_text, routed, sender, admitted>>
    /\ UNCHANGED <<vars, cvars, pvars, qvars, svars, tvars>>

MessageNext ==
    \/ \E txt \in Texts_handled : handle_message(txt)
    \/ Tick

\* handle_message (lines 105-114) for a text of any user, followed as far as the
\* rate limit: the check, and "Too many requests" when it fails; what the
\* handler does with a text it lets in is left aside. The user followed sends
\* as many texts as they like, every other user up to MaxOtherTexts.
handle_message_check(user) ==
    /\ user = user_id \/ Len(admitted[user]) < MaxOtherTexts
    /\ hpc = "idle"
    /\ last_text' = "text"
    /\ Noted(user)
    /\ user_rate_limits' = check_rate_limit(user)
    /\ routed' = IF Admits(user) THEN "admitted" ELSE "rate_limited"
    /\ UNCHANGED now
    /\ UNCHANGED <<vars, cvars, pvars, qvars, svars, tvars>>

RateNext ==
    \/ \E user \in Users : handle_message_check(user)
    \/ Tick

\* ================================================== the domain store
\* DomainManager (src/domain_manager.py) keeps the domains in the list
\* self.domains; start_direct_test (src/simple_bot.py lines 350-361) puts what
\* get_domains returns into the session. Lists are objects: add_domain and
\* add_bulk_domains append to the object in place, remove_domain and
\* clear_all_domains bind self.domains to a new object. Two objects are live
\* at most, the store's and the campaign's. A domain is its url, a number; the
\* store starts as 1..n and an added url is the smallest one not in the store.

\* ---- bounds
\* changes of the store in one run
MaxEdits == 2

ObjectIds == {1, 2}

OtherObject(id) == 3 - id

NoCampaign == [domains |-> 0, current_domain_index |-> 0]

\* the smallest url not in list l
NewUrl(l) == CHOOSE u \in 1..(Len(l) + 1) : u \notin Range(l) /\ \A v \in 1..(u - 1) : v \in Range(l)

\* l with k urls appended that it did not hold
RECURSIVE AppendNew(_, _)
AppendNew(l, k) == IF k = 0 THEN l ELSE AppendNew(Append(l, NewUrl(l)), k - 1)

\* a get_domains that hands out the store's own list
get_domains_alias(fresh) == dm_domains

\* domain_manager.py line 87: self.domains.copy() is a new list object
get_domains(fresh) == fresh

\* the object a new list of the store is put in: one the campaign does not hold
StoreObject == IF sess.domains = 0 THEN dm_domains ELSE OtherObject(sess.domains)

\* ---- the texts an admin sends as a domain: a protocol, a name, slashes at
\* the end. The name is what is left when protocol and slashes are off, and a
\* stored url is a name.
Plain(u) == [scheme |-> "", name |-> u, slashes |-> 0]

\* lines 57-60 and 111-114
strip_protocol(t) ==
    [t EXCEPT !.scheme = IF @ \in {"http://", "https://"} THEN "" ELSE @]

\* lines 63 and 116: rstrip('/')
rstrip_slashes(t) == [t EXCEPT !.slashes = 0]

\* the url the store compares and keeps for the text t
Cleaned(t) == rstrip_slashes(strip_protocol(t)).name

\* a search that finds nothing
Exists_never(l, url) == FALSE

\* lines 66-68 and 123-127: an entry of l has the url
Exists(l, url) == \E k \in DOMAIN l : l[k] = url

\* lines 104-134: self.domains after the lines were gone through, each line
\* compared with the list as it is by then
RECURSIVE AddLines(_, _)
AddLines(l, lines) ==
    IF lines = <<>> THEN l
    ELSE LET url == Cleaned(Head(lines))
         IN  AddLines(IF Exists(l, url) THEN l ELSE Append(l, url), Tail(lines))

\* k lines with urls the list l does not hold
NewLines(l, k) == [j \in 1..k |-> Plain(AppendNew(l, k)[Len(l) + j])]

NoCall == [op |-> "none", success |-> TRUE, added |-> 0, skipped |-> 0]

StoreInit ==
    /\ heap \in {[id \in ObjectIds |-> IF id = 1 THEN [k \in 1..n |-> k] ELSE <<>>] :
                   n \in 0..MaxDomains}
    /\ dm_domains = 1
    /\ sess = NoCampaign
    /\ edits = MaxEdits
    /\ created = <<>>
    /\ call = NoCall

\* add_domain (lines 54-74) with the text t, _save_domains returning saved: an
\* url the store does not hold is appended in place, then the file is written
add_domain(t, saved) ==
    /\ edits > 0
    /\ edits' = edits - 1
    /\ IF Exists(heap[dm_domains], Cleaned(t))
         THEN /\ call' = [op |-> "add_domain", success |-> FALSE, added |-> 0,
                          skipped |-> 1]
              /\ UNCHANGED heap
         ELSE /\ heap' = [heap EXCEPT ![dm_domains] = Append(@, Cleaned(t))]
              /\ call' = [op |-> "add_domain", success |-> saved,
                          added |-> IF saved THEN 1 ELSE 0, skipped |-> 0]
    /\ UNCHANGED <<dm_domains, sess, created>>
    /\ UNCHANGED <<vars, cvars, pvars, qvars, mvars, tvars>>

\* add_bulk_domains (lines 96-159) with the lines given, _save_domains, if it
\* is called, returning saved: the new urls are appended in place, then the
\* file is written once
add_bulk_domains(lines, saved) ==
    /\ edits > 0
    /\ edits' = edits - 1
    /\ LET after == AddLines(heap[dm_domains], lines)
           added == Len(after) - Len(heap[dm_domains])
       IN  /\ heap' = [heap EXCEPT ![dm_domains] = after]
           /\ call' = [op |-> "add_bulk_domains",
                       success |-> (added = 0 \/ saved),
                       added |-> IF saved THEN added ELSE 0,
                       skipped |-> Len(lines) - added]
    /\ UNCHANGED <<dm_domains, sess, created>>
    /\ UNCHANGED <<vars, cvars, pvars, qvars, mvars, tvars>>

\* remove_domain (lines 76-83) of the url u: self.domains is bound to the list
\* the comprehension builds
remove_domain(u, saved) ==
    /\ edits > 0
    /\ edits' = edits - 1
    /\ LET kept == SelectSeq(heap[dm_domains], LAMBDA d : d # u)
           gone == [heap EXCEPT ![dm_domains] = IF sess.domains = dm_domains THEN @ ELSE <<>>]
       IN  /\ heap' = [gone EXCEPT ![StoreObject] = kept]
           /\ call' = [op |-> "remove_domain",
                       success |-> (Len(kept) < Len(heap[dm_domains]) /\ saved),
                       added |-> 0, skipped |-> 0]
    /\ dm_domains' = StoreObject
    /\ UNCHANGED <<sess, created>>
    /\ UNCHANGED <<vars, cvars, pvars, qvars, mvars, tvars>>

\* clear_all_domains (lines 161-164): self.domains = []
clear_all_domains(saved) ==
    /\ edits > 0
    /\ edits' = edits - 1
    /\ LET gone == [heap EXCEPT ![dm_domains] = IF sess.domains = dm_domains THEN @ ELSE <<>>]
       IN  heap' = [gone EXCEPT ![StoreObject] = <<>>]
    /\ call' = [op |-> "clear_all_domains", success |-> saved, added |-> 0,
                skipped |-> 0]
    /\ dm_domains' = StoreObject
    /\ UNCHANGED <<sess, created>>
    /\ UNCHANGED <<vars, cvars, pvars, qvars, mvars, tvars>>

\* start_direct_test (simple_bot.py lines 350-361): the session's "domains" is
\* the list get_domains returns; a session the user had is replaced
create_campaign ==
    /\ heap[dm_domains] # <<>>
    /\ LET id == get_domains(OtherObject(dm_domains))
       IN  /\ heap' = [heap EXCEPT ![id] = heap[dm_domains]]
           /\ sess' = [domains |-> id, current_domain_index |-> 0]
    /\ created' = heap[dm_domains]
    /\ UNCHANGED <<dm_domains, edits, call>>
    /\ UNCHANGED <<vars, cvars, pvars, qvars, mvars, tvars>>

\* one slice (simple_bot.py lines 815, 825-827, 842-856): the domains at
\* current_domain_index + 0 .. + n - 1 are read from session["domains"], the
\* cursor moves on
read_slice ==
    /\ sess # NoCampaign
    /\ LET domains_ == heap[sess.domains]
           cdi == sess.current_domain_index
           n   == DomainsToSend(Len(domains_), cdi)
           adv == AdvanceDomain(cdi, n)
       IN  /\ \A k \in 0..(n - 1) : cdi + k + 1 \in DOMAIN domains_
           /\ sess' = [sess EXCEPT !.current_domain_index =
                                      IF RecipientFinished(adv, Len(domains_))
                                      THEN 0 ELSE adv]
    /\ UNCHANGED <<heap, dm_domains, edits, created, call>>
    /\ UNCHANGED <<vars, cvars, pvars, qvars, mvars, tvars>>

\* the store changes under a campaign: urls it does not hold are added, any
\* url is removed
StoreNext ==
    \/ \E saved \in BOOLEAN : add_domain(Plain(NewUrl(heap[dm_domains])), saved)
    \/ \E k \in 1..2, saved \in BOOLEAN :
          add_bulk_domains(NewLines(heap[dm_domains], k), saved)
    \/ \E u \in 1..(MaxDomains + 2 * MaxEdits), saved \in BOOLEAN : remove_domain(u, saved)
    \/ \E saved \in BOOLEAN : clear_all_domains(saved)
    \/ create_campaign
    \/ read_slice

\* ---- bounds
\* names of domains an admin types
MaxNames == 3

\* lines of a bulk input
MaxLines == 2

\* domains in the store at the start
MaxStored == 2

UrlTexts == [scheme : {"", "http://", "https://"}, name : 1..MaxNames, slashes : 0..1]

\* the ways a line of a bulk input is written
Writings == <<[scheme |-> "", slashes |-> 0], [scheme |-> "http://", slashes |-> 1],
              [scheme |-> "https://", slashes |-> 0]>>

Written(name, w) ==
    [scheme |-> Writings[w].scheme, name |-> name, slashes |-> Writings[w].slashes]

\* bulk inputs: any names in any order, a line written differently from the
\* line before it
BulkTexts ==
    UNION {{[j \in 1..n |-> Written(names[j], ((j + w) % Len(Writings)) + 1)] :
              names \in [1..n -> 1..MaxNames], w \in 1..Len(Writings)} :
           n \in 1..MaxLines}

\* the store alone, under any text an admin sends
CatalogNext ==
    \/ \E t \in UrlTexts, saved \in BOOLEAN : add_domain(t, saved)
    \/ \E lines \in BulkTexts, saved \in BOOLEAN : add_bulk_domains(lines, saved)
    \/ \E u \in 1..MaxNames, saved \in BOOLEAN : remove_domain(u, saved)
    \/ \E saved \in BOOLEAN : clear_all_domains(saved)

\* ================================================== the JSON-flow bot
\* EmailTesterBot (src/main.py) keeps one session per user in
\* self.user_sessions. The application is built without concurrent_updates
\* (line 325), so updates are handled one after the other and a handler is one
\* step. One user is followed; the chat transport delivers every reply. A
\* JSON value is [t, v], its type and its text; a JSON object is a function
\* from its keys to values.

\* ---- bounds
\* pieces of an email list message
MaxPieces == 2

None == [t |-> "null", v |-> "null"]

Str(s) == [t |-> "str", v |-> s]

Num(s) == [t |-> "number", v |-> s]

Bool(s) == [t |-> "bool", v |-> s]

RequiredFields == {"host", "port", "username", "password"}

\* the objects with every key
FullObjects ==
    [host     : {Str("smtp.example.com"), Str(" ")},
     port     : {Num("587"), Num("0")},
     username : {Str("user@example.com"), Str("user"), Num("5")},
     password : {Str("secret"), Str("")},
     use_tls  : {Bool("true"), Bool("false"), Str("yes")},
     use_ssl  : {Bool("true"), Bool("false")}]

\* the keys an object may have: the required ones with some of the flags, or
\* the required ones without the host or without the password
KeySets ==
    {RequiredFields \cup O : O \in SUBSET {"use_tls", "use_ssl"}}
        \cup {RequiredFields \ {f} : f \in {"host", "password"}}

\* a value that is an object: it has the object's keys, not a type and a text
IsObject(x) == "t" \notin DOMAIN x

JsonObjects == {[k \in K |-> o[k]] : o \in FullObjects, K \in KeySets}

Words == {"gmail", "Outlook", "YAHOO", "hello"}

Addresses_valid == {"a@example.com", "b@example.com"}

Pieces_all == Addresses_valid \cup {"not-an-address", ""}

EmailLists == UNION {[1..n -> Pieces_all] : n \in 1..MaxPieces}

\* the text messages: a word, a JSON number, a JSON object, or pieces between
\* commas or line ends
Messages ==
    {[form |-> "word", word |-> w, value |-> None, pieces |-> <<>>] : w \in Words}
        \cup {[form |-> "number", word |-> "", value |-> Num("5"), pieces |-> <<>>]}
        \cup {[form |-> "object", word |-> "", value |-> o, pieces |-> <<>>] : o \in JsonObjects}
        \cup {[form |-> "list", word |-> "", value |-> None, pieces |-> l] : l \in EmailLists}

\* str.lower() on the words
lower(w) ==
    CASE w = "Outlook" -> "outlook"
      [] w = "YAHOO"   -> "yahoo"
      [] OTHER         -> w

\* config.py lines 28-54: the presets, every one a non-empty dict
smtp_presets == {"gmail", "outlook", "yahoo"}

get_smtp_preset(provider) == lower(provider) \in smtp_presets

\* json.loads (line 193): a JSON text gives its value, any other text raises
\* JSONDecodeError
json_loads(m) ==
    IF m.form \in {"number", "object"}
    THEN [ok |-> TRUE, value |-> m.value]
    ELSE [ok |-> FALSE, value |-> None]

\* validators.py lines 210-213 (the definition in force, the second of the
\* file): the pattern on the stripped text
validate_email(e) == e \in Addresses_valid \cup {"user@example.com"}

\* int() of a JSON number
int(v) == IF v.v = "587" THEN 587 ELSE 0

\* validators.py lines 255-328 (the definition in force): valid, invalid, or
\* raised when an operation does not apply to the value's type
validate_smtp_config(c) ==
    IF ~IsObject(c) THEN "raised"                          \* 'host' not in 5
    ELSE LET o == c
             get(f, default) == IF f \in DOMAIN o THEN o[f] ELSE default
             use_tls == get("use_tls", Bool("true"))
             use_ssl == get("use_ssl", Bool("false"))
         IN  IF \E f \in RequiredFields : f \notin DOMAIN o THEN "invalid"
             ELSE IF o["host"].t # "str" \/ o["host"].v = " " THEN "invalid"
             ELSE IF int(o["port"]) < 1 \/ int(o["port"]) > 65535 THEN "invalid"
             ELSE IF o["username"].t # "str" THEN "raised"  \* email.strip()
             ELSE IF ~validate_email(o["username"].v) THEN "invalid"
             ELSE IF o["password"].t # "str" \/ o["password"].v = "" THEN "invalid"
             ELSE IF use_tls.t # "bool" THEN "invalid"
             ELSE IF use_ssl.t # "bool" THEN "invalid"
             ELSE IF use_tls.v = "true" /\ use_ssl.v = "true" THEN "invalid"
             ELSE "valid"

\* line 209: the connection test's result
connection_succeeded_any(connection_result) == TRUE

connection_succeeded(connection_result) == connection_result = "success"

\* _handle_email_list lines 238-246: the pieces, stripped, the empty ones dropped
split_emails(m) ==
    IF m.form = "list" THEN SelectSeq(m.pieces, LAMBDA e : e # "") ELSE <<"not-an-address">>

\* validators.py lines 215-253 (the definition in force)
validate_email_list_lenient(emails) ==
    [valid |-> TRUE, valid_emails |-> SelectSeq(emails, validate_email)]

validate_email_list(emails) ==
    LET valid_emails == SelectSeq(emails, validate_email)
    IN  IF emails = <<>> \/ Len(emails) > 100
        THEN [valid |-> FALSE, valid_emails |-> <<>>]
        ELSE [valid |-> Len(valid_emails) > 0, valid_emails |-> valid_emails]

NoSession == [present |-> FALSE, state |-> "none", smtp_config |-> None]

\* what a handler notes: the handler, the state it found, what the text was,
\* what validation and the connection test gave, the configuration and the
\* addresses handed to the engine, the reply sent last
Note(handler) ==
    [handler |-> handler, from |-> tester_session.state, keyword |-> FALSE,
     json |-> FALSE, validation |-> "none", connection |-> "none",
     addresses |-> 0, called |-> FALSE, config |-> None, sent |-> <<>>,
     reply |-> "none"]

TesterInit ==
    /\ tester_session = NoSession
    /\ tlast = Note("none")
    /\ tested = None

\* start (lines 31-55): the welcome text
start ==
    /\ tlast' = [Note("start") EXCEPT !.reply = "welcome"]
    /\ UNCHANGED <<tester_session, tested>>
    /\ UNCHANGED <<vars, cvars, pvars, qvars, mvars, svars>>

\* help_command (lines 57-98)
help_command ==
    /\ tlast' = [Note("help_command") EXCEPT !.reply = "help"]
    /\ UNCHANGED <<tester_session, tested>>
    /\ UNCHANGED <<vars, cvars, pvars, qvars, mvars, svars>>

\* test_command (lines 100-140): a new session, whatever the user had
test_command ==
    /\ tester_session' = [present |-> TRUE, state |-> "waiting_smtp", smtp_config |-> None]
    /\ tlast' = [Note("test_command") EXCEPT !.reply = "setup"]
    /\ UNCHANGED tested
    /\ UNCHANGED <<vars, cvars, pvars, qvars, mvars, svars>>

\* _handle_smtp_config (lines 162-230) on message m, the connection test, if
\* it is reached, giving connection_result
handle_smtp_config(m, connection_result) ==
    LET note == [Note("_handle_smtp_config") EXCEPT
                    !.keyword = (m.form = "word" /\ lower(m.word) \in {"gmail", "outlook", "yahoo"}),
                    !.json = json_loads(m).ok]
    IN  IF m.form = "word" /\ lower(m.word) \in {"gmail", "outlook", "yahoo"}
             /\ get_smtp_preset(lower(m.word))
        THEN \* lines 168-190
             /\ tlast' = [note EXCEPT !.reply = "preset"]
             /\ UNCHANGED <<tester_session, tested>>
        ELSE IF ~json_loads(m).ok
        THEN \* line 193 raises, lines 222-225
             /\ tlast' = [note EXCEPT !.reply = "invalid_json"]
             /\ UNCHANGED <<tester_session, tested>>
        ELSE LET config == json_loads(m).value
                 validation == validate_smtp_config(config)
             IN  IF validation = "raised"
                 THEN \* lines 226-230
                      /\ tlast' = [note EXCEPT !.validation = validation, !.reply = "error"]
                      /\ UNCHANGED <<tester_session, tested>>
                 ELSE IF validation # "valid"
                 THEN \* lines 197-201
                      /\ tlast' = [note EXCEPT !.validation = validation,
                                               !.reply = "configuration_error"]
                      /\ UNCHANGED <<tester_session, tested>>
                 ELSE IF connection_succeeded(connection_result)
                 THEN \* lines 209-216
                      /\ tester_session' = [tester_session EXCEPT
                                               !.smtp_config = config,
                                               !.state = "waiting_emails"]
                      /\ tested' = IF connection_result = "success" THEN config ELSE tested
                      /\ tlast' = [note EXCEPT !.validation = validation,
                                               !.connection = connection_result,
                                               !.config = config,
                                               !.reply = "connection_successful"]
                 ELSE \* lines 217-220
                      /\ tlast' = [note EXCEPT !.validation = validation,
                                               !.connection = connection_result,
                                               !.config = config,
                                               !.reply = "connection_failed"]
                      /\ UNCHANGED <<tester_session, tested>>

\* _handle_email_list (lines 232-307) on message m, the engine, if it is
\* called, reporting the addresses at the positions in delivered as sent
handle_email_list(m, delivered) ==
    LET emails == split_emails(m)
        validation == validate_email_list(emails)
        note == [Note("_handle_email_list") EXCEPT
                    !.addresses = Len(SelectSeq(emails, validate_email))]
    IN  IF ~validation.valid
        THEN \* lines 252-256
             /\ tlast' = [note EXCEPT !.reply = "validation_error"]
             /\ UNCHANGED <<tester_session, tested>>
        ELSE \* lines 268-301: send_test_emails, the reports, del
             /\ tlast' = [note EXCEPT !.called = TRUE,
                                      !.config = tester_session.smtp_config,
                                      !.sent = [k \in DOMAIN validation.valid_emails |->
                                                  k \in delivered],
                                      !.reply = "completed"]
             /\ tester_session' = NoSession
             /\ UNCHANGED tested

\* handle_message (lines 142-160) on message m; what the provider answers to
\* the handler's call is any of its answers
tester_handle_message(m) ==
    /\ IF ~tester_session.present
       THEN \* lines 148-152
            /\ tlast' = [Note("handle_message") EXCEPT !.reply = "start_with_test"]
            /\ UNCHANGED <<tester_session, tested>>
       ELSE IF tester_session.state = "waiting_smtp"
       THEN \E connection_result \in {"success", "failure"} :
                handle_smtp_config(m, connection_result)
       ELSE \E delivered \in SUBSET (1..MaxPieces) : handle_email_list(m, delivered)
    /\ UNCHANGED <<vars, cvars, pvars, qvars, mvars, svars>>

TesterNext ==
    \/ start
    \/ help_command
    \/ test_command
    \/ \E m \in Messages : tester_handle_message(m)

\* ------------------------------------------------------ specifications
\* the engine's variables while only the coordinator is followed
EngineParked == email_list = <<>> /\ Init

\* the coordinator's variables while only the engine is followed
CampaignParked == domains = <<>> /\ CampaignInit

\* no session is being opened step by step
ProviderParked ==
    /\ ProviderInit
    /\ smtp_config = [use_ssl |-> FALSE, use_tls |-> TRUE, port |-> 587]
    /\ opath = "test"

\* no message is being read
ParserParked ==
    /\ text = [config |-> NoConfig, rest |-> <<>>]
    /\ parsed = Pending

\* no text message is followed through the rate limit
MessageParked == MessageInit

\* an empty store that nobody changes
StoreParked ==
    /\ StoreInit
    /\ heap[1] = <<>>

\* nobody talks to the JSON-flow bot
TesterParked == TesterInit

OthersParked ==
    ProviderParked /\ ParserParked /\ MessageParked /\ StoreParked /\ TesterParked

allvars == <<vars, cvars, ovars>>

\* a batch call, the coordinator at rest
BatchInit == Init /\ CampaignParked /\ OthersParked

Spec == BatchInit /\ [][Next]_allvars

\* The call runs on an executor thread that is never starved: some step is
\* always eventually taken while one is possible.
FairSpec == Spec /\ WF_allvars(Next)

\* a user's campaigns, no batch call followed inside the engine
CoordinatorInit == CampaignInit /\ EngineParked /\ OthersParked

CampaignSpec == CoordinatorInit /\ [][CampaignNext]_allvars

\* the same campaigns, with updates that arrive during a handler
RunSpec == CoordinatorInit /\ [][RunNext]_allvars

\* one connection test or one establish_connection call, for every configuration
OpenInit ==
    /\ ProviderInit
    /\ EngineParked
    /\ CampaignParked
    /\ ParserParked
    /\ MessageParked
    /\ StoreParked
    /\ TesterParked

OpenSpec == OpenInit /\ [][OpenNext]_allvars

\* messages read one after the other
ParseInit ==
    /\ ParserInit
    /\ EngineParked
    /\ CampaignParked
    /\ ProviderParked
    /\ MessageParked
    /\ StoreParked
    /\ TesterParked

ParseSpec == ParseInit /\ [][ParseNext]_allvars

\* the text messages of a user, with at most one domain in the store
DoorInit ==
    /\ CampaignInit
    /\ Len(domains) <= 1
    /\ MessageInit
    /\ EngineParked
    /\ ProviderParked
    /\ ParserParked
    /\ StoreParked
    /\ TesterParked

MessageSpec == DoorInit /\ [][MessageNext]_allvars

\* the text messages of two users at the rate limit
LimitInit ==
    /\ MessageInit
    /\ EngineParked
    /\ CampaignParked
    /\ ProviderParked
    /\ ParserParked
    /\ StoreParked
    /\ TesterParked

RateSpec == LimitInit /\ [][RateNext]_allvars

\* the store under change while a campaign reads its list
DomainsInit ==
    /\ StoreInit
    /\ EngineParked
    /\ CampaignParked
    /\ ProviderParked
    /\ ParserParked
    /\ MessageParked
    /\ TesterParked

StoreSpec == DomainsInit /\ [][StoreNext]_allvars

\* a small store that admins change
CatalogInit ==
    /\ StoreInit
    /\ Len(heap[dm_domains]) <= MaxStored
    /\ EngineParked
    /\ CampaignParked
    /\ ProviderParked
    /\ ParserParked
    /\ MessageParked
    /\ TesterParked

CatalogSpec == CatalogInit /\ [][CatalogNext]_allvars

\* a user of the JSON-flow bot
BotInit ==
    /\ TesterInit
    /\ EngineParked
    /\ CampaignParked
    /\ ProviderParked
    /\ ParserParked
    /\ MessageParked
    /\ StoreParked

TesterSpec == BotInit /\ [][TesterNext]_allvars

\* ================================================================ claims
Recorded == Range(successful) \cup DOMAIN failed

\* C1: when a batch call has returned, every recipient of the list is in
\* successful or in failed, none is in both, and none is listed twice.
C1_Accounted ==
    pc = "done" =>
        /\ Range(successful) \cup DOMAIN failed = Range(email_list)
        /\ Range(successful) \cap DOMAIN failed = {}
        /\ Cardinality(Range(successful)) = Len(successful)

\* a batch that mixed sent recipients with at least two failed ones has returned
C1_Witness ==
    /\ pc = "done"
    /\ Len(successful) >= 1
    /\ Cardinality(DOMAIN failed) >= 2

\* C2: if the initial establish_connection failed on both of its 2 attempts,
\* the call has returned after exactly those 2 connection attempts, without a
\* session, without any transmission, with successful empty and every
\* recipient failed with the connection-error reason.
C2_InitialFailure ==
    initial = "failed" =>
        /\ pc = "done"
        /\ result = "returned"
        /\ connects = 2
        /\ server = 0
        /\ \A r \in Range(email_list) : tx_log[r] = <<>>
        /\ successful = <<>>
        /\ DOMAIN failed = Range(email_list)
        /\ \A r \in DOMAIN failed : failed[r] = "SMTP connection error"

\* the initial session could not be opened for a list of several recipients
C2_Witness ==
    /\ initial = "failed"
    /\ Len(email_list) >= 2

\* C3 as claimed: a recipient recorded as refused has had exactly one
\* transmission attempt and no establish_connection call.
C3_Original ==
    \A r \in DOMAIN failed :
        failed[r] = "Recipient refused" => Len(tx_log[r]) = 1 /\ est_calls[r] = 0

\* C3 (amended): a refusal is the last transmission attempt for its recipient
\* (the only one when it answers the first pass), it starts no
\* establish_connection call, the recipient is recorded in failed with the
\* refusal reason, and the next recipient is transmitted on the same session.
C3_Refusal ==
    \A r \in Range(email_list) :
        \A k \in 1..Len(tx_log[r]) :
            tx_log[r][k].outcome = "refused" =>
                /\ k = Len(tx_log[r])
                /\ est_calls[r] = k - 1
                /\ r \in DOMAIN failed /\ failed[r] = "Recipient refused"
                /\ r \notin Range(successful)
                /\ i >= r
                /\ (r + 1 \in Range(email_list) /\ (i > r \/ pc = "done")) =>
                        /\ tx_log[r + 1] # <<>>
                        /\ tx_log[r + 1][1].session = tx_log[r][k].session

\* a first-pass refusal followed by the next recipient's transmission
C3_Witness ==
    \E r \in Range(email_list) :
        /\ Len(tx_log[r]) = 1
        /\ tx_log[r][1].outcome = "refused"
        /\ r + 1 \in Range(email_list)
        /\ tx_log[r + 1] # <<>>

\* C4 as claimed: a recipient recorded in failed whose first transmission met
\* a broken session has had exactly one reconnect and exactly one
\* retransmission.
C4_Original ==
    \A r \in DOMAIN failed :
        (tx_log[r] # <<>> /\ Classify(tx_log[r][1].outcome) = "broken") =>
            est_calls[r] = 1 /\ Len(tx_log[r]) = 2

\* C4 (amended): a first transmission that meets a broken session starts
\* exactly one establish_connection call; a second transmission happens only
\* after that call, on the session it returned; a recipient recorded in failed
\* after it has been retransmitted exactly once, or not at all when the
\* reconnect failed; no recipient is transmitted more than twice.
C4_RetryOnce ==
    \A r \in Range(email_list) :
        /\ Len(tx_log[r]) <= 2
        /\ est_calls[r] <= 1
        /\ est_calls[r] = 1 <=>
               (tx_log[r] # <<>> /\ Classify(tx_log[r][1].outcome) = "broken")
        /\ Len(tx_log[r]) = 2 =>
               /\ est_calls[r] = 1
               /\ tx_log[r][2].session # tx_log[r][1].session
        /\ (r \in DOMAIN failed /\ est_calls[r] = 1) =>
               IF failed[r] = "Connection retry failed"
               THEN Len(tx_log[r]) = 1
               ELSE Len(tx_log[r]) = 2

\* a retransmission after a reconnect has failed too
C4_Witness ==
    \E r \in DOMAIN failed :
        /\ failed[r] = "Send retry failed"
        /\ Len(tx_log[r]) = 2
        /\ tx_log[r][1].outcome = "disconnected"

\* C5: when a batch that obtained its initial session has returned, every
\* recipient during whose processing the provider did not fail has been
\* transmitted and is in successful.
C5_NoSpoil ==
    (pc = "done" /\ initial = "ok") =>
        \A r \in Range(email_list) \ hit :
            tx_log[r] # <<>> /\ r \in Range(successful)

\* C6: every batch call ends by returning a result; it never raises.
C6_Returns == <>(pc = "done" /\ result = "returned")

\* an empty or non-empty batch has returned after every provider failure was spent
C6_Witness ==
    /\ pc = "done"
    /\ result = "returned"
    /\ initial = "ok"
    /\ budget = 0

\* C7: at most one session is open at any time, and none when the call has
\* returned.
C7_OneSession ==
    /\ Cardinality(OpenSessions) <= 1
    /\ pc = "done" => OpenSessions = {}

\* C8: when a batch call that obtained a session has returned, the finally
\* block attempted quit on the session it held, and successful and failed are
\* what they were when the loop was left, whatever that quit answered.
C8_FinalClose ==
    (pc = "done" /\ initial = "ok") =>
        /\ server # 0
        /\ final_quit.session = server
        /\ result = "returned"
        /\ successful = at_loop_end.successful
        /\ failed = at_loop_end.failed

\* a batch has returned although the final quit failed
C8_Witness ==
    /\ pc = "done"
    /\ initial = "ok"
    /\ final_quit.outcome \in {"fail", "not_connected"}
    /\ Len(successful) >= 1

\* C9: no session carries more than max_connection_age (10) successful
\* transmissions.
C9_SessionLifetime ==
    \A s \in 1..Len(sessions) : sessions[s].sent <= max_connection_age

\* C10: a recipient is transmitted only after every recipient before it in
\* the list has been recorded in successful or failed, and successful lists
\* recipients in the order of the list (email_list[k] = k).
C10_InOrder ==
    /\ LET rec == Recorded
       IN  \A r \in 1..Len(email_list) :
               tx_log[r] # <<>> => (1..(r - 1)) \subseteq rec
    /\ \A k \in 1..(Len(successful) - 1) : successful[k] < successful[k + 1]

\* the third recipient is being transmitted after a failure and a success
C10_Witness ==
    /\ Len(email_list) >= 3
    /\ tx_log[3] # <<>>
    /\ 3 \notin Recorded
    /\ Len(successful) >= 1
    /\ DOMAIN failed # {}

\* C11: when the only provider failure of a batch is one send that breaks the
\* session (a disconnect), the engine calls establish_connection exactly once
\* more, for that recipient; the recipient is transmitted a second time, on the
\* new session, and ends in successful; every other recipient is transmitted
\* once, and the batch returns with every recipient in successful.
C11_ReconnectOnce ==
    ( /\ pc = "done"
      /\ initial = "ok"
      /\ budget = MaxFaults - 1
      /\ \E r \in Range(email_list) :
             tx_log[r] # <<>> /\ tx_log[r][1].outcome = "disconnected" )
    => \E r \in Range(email_list) :
           /\ est_calls[r] = 1
           /\ Len(tx_log[r]) = 2
           /\ tx_log[r][2].outcome = "ok"
           /\ tx_log[r][2].session # tx_log[r][1].session
           /\ \A q \in Range(email_list) \ {r} :
                  est_calls[q] = 0 /\ Len(tx_log[q]) = 1
           /\ successful = email_list
           /\ DOMAIN failed = {}

\* a batch of three has returned after the second recipient's send broke the
\* session
C11_Witness ==
    /\ pc = "done"
    /\ Len(email_list) = 3
    /\ budget = MaxFaults - 1
    /\ Len(tx_log[2]) = 2
    /\ tx_log[2][1].outcome = "disconnected"
    /\ est_calls[2] = 1
    /\ successful = email_list

\* ------------------------------------------------ claims on the coordinator
\* C12 as stated: a slice sends every recipient of the campaign one message
\* for each domain of the slice.
C12_Original ==
    (hpc = "idle" /\ slice.count > 0)
    => \A r \in 1..camp.recipients : \A k \in 1..slice.count :
           Handed(<<r, slice.first + k>>) >= 1

\* C12, amended: the product is iterated recipient-major. A slice invocation
\* sends the current recipient, and no other, one message for each domain of
\* the slice: the next min(5, domains left) domains from the domain cursor.
\* Then the domain cursor advances by the slice; when it reaches the end of
\* the domain list the recipient cursor advances by one and the domain cursor
\* returns to 0.
C12_Slice ==
    (hpc = "idle" /\ slice.count > 0)
    => /\ HasSession
       /\ slice.count = Min(5, camp.domains - slice.first)
       /\ slice.count >= 1
       /\ slice.pairs = {<<slice.recipient, slice.first + k>> : k \in 1..slice.count}
       /\ \A p \in slice.pairs : Handed(p) >= 1
       /\ IF slice.first + slice.count >= camp.domains
            THEN /\ session.current_recipient_index = slice.recipient
                 /\ session.current_domain_index = 0
            ELSE /\ session.current_recipient_index = slice.recipient - 1
                 /\ session.current_domain_index = slice.first + slice.count

\* the last, short slice of the second of three recipients has been sent
C12_Witness ==
    /\ hpc = "idle"
    /\ camp.recipients = 3
    /\ camp.domains = 12
    /\ slice.recipient = 2
    /\ slice.first = 10
    /\ slice.count = 2
    /\ session.current_recipient_index = 2

\* slices per recipient: ceil(D / 5)
SlicesPerRecipient(D) == (D + 4) \div 5

\* C13 as stated: the domain cursor never decreases over a slice, and after N
\* slice invocations (no SKIP) it equals min(N x 5, number of domains).
C13_Original ==
    /\ (hpc = "idle" /\ slice.count > 0)
       => session.current_domain_index >= slice.first
    /\ (hpc = "idle" /\ plain /\ HasSession /\ session.has_config)
       => session.current_domain_index = Min(slices * 5, camp.domains)

\* the cursor as a pair, in recipient-major order
CursorLeq(s, t) ==
    \/ s.current_recipient_index < t.current_recipient_index
    \/ /\ s.current_recipient_index = t.current_recipient_index
       /\ s.current_domain_index <= t.current_domain_index

\* C13, amended: the cursor is monotonic in recipient-major order. While a
\* campaign lasts the pair (recipient cursor, domain cursor) never decreases
\* lexicographically, and the domain cursor changes to a smaller value only
\* together with an advance of the recipient cursor. After N slice
\* invocations (no SKIP), with S = ceil(D / 5), the recipient cursor is
\* N div S and the domain cursor is 5 x (N mod S).
C13_Cursor ==
    /\ []( (hpc = "idle" /\ plain /\ HasSession /\ session.has_config)
           => /\ session.current_recipient_index
                     = slices \div SlicesPerRecipient(camp.domains)
              /\ session.current_domain_index
                     = 5 * (slices % SlicesPerRecipient(camp.domains)) )
    /\ [][ (HasSession /\ HasSession' /\ signal' # "start_test")
            => CursorLeq(session, session') ]_allvars

\* four slices of a campaign of 3 x 12: the second recipient's first slice has
\* been sent, the domain cursor went 5, 10, 0, 5
C13_Witness ==
    /\ hpc = "idle"
    /\ plain
    /\ HasSession
    /\ camp.recipients = 3 /\ camp.domains = 12
    /\ slices = 4
    /\ session.current_recipient_index = 1
    /\ session.current_domain_index = 5

\* the pairs of the campaign's product
Product == (1..camp.recipients) \X (1..camp.domains)

\* the cursor has consumed the whole product
Consumed ==
    /\ HasSession
    /\ session.has_config
    /\ session.current_recipient_index >= Len(session.recipient_emails)

\* C14: in a campaign driven by one input and then only CONTINUE and STATS
\* signals, with pauses between them, no (recipient, domain) pair is handed to
\* the delivery engine twice; between two signals the pairs handed are exactly
\* those before the cursor; and when the cursor has consumed the product, and
\* when the final report is made, every pair of the product has been handed
\* exactly once.
C14_ExactlyOnce ==
    plain =>
        /\ \A p \in Pairs : Handed(p) <= 1
        /\ (hpc = "idle" /\ HasSession /\ session.has_config)
           => \A p \in Pairs :
                  Handed(p) = 1 <=>
                      /\ p \in Product
                      /\ \/ p[1] - 1 < session.current_recipient_index
                         \/ /\ p[1] - 1 = session.current_recipient_index
                            /\ p[2] <= session.current_domain_index
        /\ (hpc = "idle" /\ (Consumed \/ reply = "complete"))
           => \A p \in Pairs : Handed(p) = IF p \in Product THEN 1 ELSE 0

\* the final report of a campaign of 3 x 12 that was paused on the way and
\* asked for its statistics
C14_Witness ==
    /\ plain
    /\ reply = "complete"
    /\ camp.recipients = 3 /\ camp.domains = 12
    /\ \A p \in Product : Handed(p) = 1

\* C15 as stated: the campaign is complete after exactly ceil(D / 5) slices,
\* whatever the number of recipients; 3 recipients x 12 domains take exactly 3
\* CONTINUE signals.
C15_Original ==
    (plain /\ hpc = "idle" /\ (Consumed \/ reply = "complete"))
    => /\ slices = SlicesPerRecipient(camp.domains)
       /\ (camp.recipients = 3 /\ camp.domains = 12 /\ reply = "complete")
          => continues = 3

\* C15, amended: with slice size 5 a campaign over R recipients and D domains
\* (one input, then CONTINUE and STATS only) has consumed its product after
\* exactly R x ceil(D / 5) slices and not before: the first slice is started
\* by the input, every further one by one CONTINUE, and one more CONTINUE
\* produces the final report. 3 recipients x 12 domains: 9 slices (5, 5 and 2
\* domains for each recipient), 8 CONTINUE signals to send them and a 9th for
\* the report.
C15_Slices ==
    (plain /\ hpc = "idle")
    => LET N == camp.recipients * SlicesPerRecipient(camp.domains)
       IN  /\ Consumed => (slices = N /\ continues = N - 1)
           /\ reply = "complete" => (slices = N /\ continues = N)
           /\ (HasSession /\ session.has_config /\ slices < N) => ~Consumed
           /\ (HasSession /\ session.has_config) => continues = slices - 1

\* the final report of a campaign of 3 x 12, after 9 slices and 9 CONTINUE
C15_Witness ==
    /\ plain
    /\ hpc = "idle"
    /\ reply = "complete"
    /\ camp.recipients = 3 /\ camp.domains = 12
    /\ slices = 9
    /\ continues = 9

\* C16: as soon as the last slice has been sent the campaign is complete:
\* between two signals no session is left whose cursor has consumed the
\* product (the final report was made and the session removed by the handler
\* that sent the last slice).
C16_CompleteAtOnce ==
    hpc = "idle" => ~Consumed

\* C17: STOP discards the campaign. Once stop_sending has been handled for a
\* user with a session, and until a new campaign is created, the user has no
\* session, and a CONTINUE, STATS or SKIP signal runs no connection check,
\* hands nothing to the delivery engine and only reports that the session
\* has expired (CONTINUE) or that there is no active campaign (STATS, SKIP).
C17_StopDiscards ==
    camp.ended = "stop" =>
        /\ ~HasSession
        /\ hpc = "idle"
        /\ signal \in {"send_next_batch", "show_stats", "skip_recipient"}
           => /\ ~had_session
              /\ tests = 0
              /\ slice = NoSlice
              /\ reply = IF signal = "send_next_batch" THEN "session_expired"
                         ELSE "no_active"

\* a campaign was stopped after its first slice, and a CONTINUE came later
C17_Witness ==
    /\ camp.ended = "stop"
    /\ signal = "send_next_batch"
    /\ reply = "session_expired"
    /\ Handed(<<1, 1>>) = 1
    /\ Handed(<<1, 6>>) = 0

\* C18: STATS reports without advancing. Handling show_campaign_stats leaves
\* the user's session (both cursors, both counters, its existence) as it
\* was, runs no connection check, hands nothing to the delivery engine and
\* leaves the engine untouched.
C18_StatsFrame ==
    [][ signal' = "show_stats"
        => /\ user_sessions' = user_sessions
           /\ handed' = handed
           /\ tests' = 0
           /\ slice' = NoSlice
           /\ hpc' = "idle"
           /\ UNCHANGED vars ]_allvars

\* statistics were reported in the middle of a recipient, after a failed send
C18_Witness ==
    /\ signal = "show_stats"
    /\ reply = "stats"
    /\ HasSession
    /\ session.current_recipient_index = 1
    /\ session.current_domain_index = 5
    /\ session.total_failed = 1

\* C19: a campaign that has not advanced for longer than session_timeout is
\* discarded: no session is left, between two signals or in a handler that is
\* about to check the connection or to send a slice, once more than
\* session_timeout has passed since the campaign was created or last
\* advanced (so a late signal finds no session and sends nothing from the
\* stale cursor).
C19_Expires ==
    idle_time > session_timeout => ~HasSession

\* some pair has been handed to the delivery engine
Transmitted == \E p \in Pairs : Handed(p) > 0

C21_Serial ==
    /\ [](hpc # "idle" => HasSession)
    /\ [][hpc # "idle" =>
            /\ signal' = signal
            /\ waiting # "none" => waiting' = waiting]_allvars

\* STOP arrived during a slice; the slice has finished and the session is kept
C21_Witness ==
    /\ hpc = "idle"
    /\ waiting = "stop_sending"
    /\ slice.count > 0
    /\ HasSession

\* C22: when the connection to the provider fails during a slice invocation
\* that CONTINUE started, the session is still there (with its cursor and
\* counters) for a later CONTINUE.
C22_FailureKeepsCampaign ==
    (hpc = "idle" /\ signal = "send_next_batch" /\ reply = "connection_failed")
        => HasSession

\* ------------------------------------------------- claims on the provider
Did(o) == \E k \in 1..Len(ops) : ops[k].op = o

\* C23: when a connection test has returned, it has made exactly one
\* connection attempt; if that attempt opened a session, the last thing done
\* was a quit on it; and the test reports success exactly when the login
\* succeeded, whether or not the quit failed.
C23_TestCloses ==
    (opath = "test" /\ opc = "done") =>
        /\ oattempts = 1
        /\ opened <= 1
        /\ opened = 1 => ops[Len(ops)].op = "quit"
        /\ outcome \in {"success", "failure"}
        /\ outcome = "success" <=> [op |-> "login", ok |-> TRUE] \in Range(ops)

\* a successful test whose quit failed
C23_Witness ==
    /\ opath = "test"
    /\ opc = "done"
    /\ outcome = "success"
    /\ ops[Len(ops)] = [op |-> "quit", ok |-> FALSE]

\* the security mode the configuration asks for
Implicit == smtp_config.use_ssl \/ smtp_config.port = 465

\* C24: in either path, for every configuration: with use_ssl or port 465 the
\* transport is opened encrypted and starttls is never issued; otherwise it is
\* opened plain, starttls is issued exactly when use_tls is set and then
\* precedes the login; and login is the last operation of the opening (only
\* the test's quit follows it).
C24_SecurityMode ==
    /\ ops # <<>> => ops[1].op = IF Implicit THEN "open_ssl" ELSE "open_plain"
    /\ Did("starttls") => ~Implicit /\ smtp_config.use_tls
    /\ \A k \in 1..Len(ops) :
          ops[k].op = "login" =>
              /\ \A j \in 1..(k - 1) : ops[j].ok
              /\ ~Implicit /\ smtp_config.use_tls
                    => k = 3 /\ ops[2] = [op |-> "starttls", ok |-> TRUE]
              /\ \A j \in (k + 1)..Len(ops) : ops[j].op = "quit"

\* the batch path has opened a session on port 465 without the use_ssl flag,
\* use_tls set: encrypted from the start, then login
C24_Witness ==
    /\ opath = "batch"
    /\ opc = "done"
    /\ outcome = "returned"
    /\ smtp_config = [use_ssl |-> FALSE, use_tls |-> TRUE, port |-> 465]
    /\ ops = <<[op |-> "open_ssl", ok |-> TRUE], [op |-> "login", ok |-> TRUE]>>

\* C25: once the operation timeout has been set on a session, the connect
\* timeout the session was opened with is strictly smaller, in both paths.
C25_ConnectShorter ==
    timeouts.operation > 0 => timeouts.connect < timeouts.operation

\* --------------------------------------------------- claims on the input
\* the text holds a line of settings and an address that is not the provider's
HasRecipient(t) ==
    /\ t.config.given
    /\ \E k \in 1..Len(t.rest) :
          t.rest[k].name \notin {t.config.username.name, t.config.from_email.name}

\* C26: from a text with a line of settings and a recipient, parse_smart_input
\* returns a recipient list: lower-case addresses, none twice, none of them the
\* provider's username or from_email in whatever case these were typed.
C26_Recipients ==
    (parsed # Pending /\ HasRecipient(text)) =>
        /\ parsed.status = "returned"
        /\ parsed.emails # <<>>
        /\ \A k \in 1..Len(parsed.emails) :
              /\ ~parsed.emails[k].of.upper
              /\ parsed.emails[k].of.name
                    \notin {text.config.username.name, text.config.from_email.name}
              /\ \A j \in 1..(k - 1) : parsed.emails[j] # parsed.emails[k]

\* ------------------------------------------------------ claims on the engine
\* C27: in a batch call no recipient's message is composed more than once; a
\* recipient that was transmitted had its message composed once, and each of
\* its transmissions, the retransmission after a reconnect too, carries that
\* one message; for a recipient whose periodic refresh failed nothing is composed.
C27_ComposedOnce ==
    \A r \in Range(email_list) :
        /\ composed[r] <= 1
        /\ tx_log[r] # <<>> =>
              /\ composed[r] = 1
              /\ \A k \in 1..Len(tx_log[r]) : tx_log[r][k].message = [to |-> r, serial |-> 1]
        /\ (r \in DOMAIN failed /\ failed[r] = "Processing error") => composed[r] = 0

\* one recipient was retransmitted after a reconnect, another lost its refresh
C27_Witness ==
    /\ \E r \in Range(email_list) :
          /\ Len(tx_log[r]) = 2
          /\ tx_log[r][2].session # tx_log[r][1].session
          /\ tx_log[r][2].message = tx_log[r][1].message
    /\ \E q \in DOMAIN failed : failed[q] = "Processing error" /\ composed[q] = 0

\* ------------------------------------------- more claims on the coordinator
\* pairs of the campaign whose recipient the cursor has passed without their
\* being handed to the engine
PassedUnsent ==
    IF HasSession
    THEN {p \in Pairs : /\ p[1] <= session.current_recipient_index
                        /\ p[2] <= Len(session.domains)
                        /\ Handed(p) = 0}
    ELSE {}

\* C28: SKIP on a campaign with a recipient at the cursor moves the recipient
\* cursor on by one and the domain cursor to 0, then starts the next
\* recipient's first slice invocation (its connection check) if a recipient
\* remains and discards the campaign otherwise; SKIP on a campaign whose
\* recipients are used up discards it; and a pair the cursor has passed
\* unsent is never handed to the engine while the campaign lives.
C28_Skip ==
    [][ /\ (skip_to_next_recipient /\ HasSession /\ session.has_config) =>
             IF session.current_recipient_index + 1 < Len(session.recipient_emails)
             THEN /\ HasSession'
                  /\ session'.current_recipient_index = session.current_recipient_index + 1
                  /\ session'.current_domain_index = 0
                  /\ session'.recipient_emails = session.recipient_emails
                  /\ session'.domains = session.domains
                  /\ hpc' = "test"
                  /\ handed' = handed
             ELSE ~HasSession'
        /\ signal' # "start_test" => \A p \in PassedUnsent : p \notin DOMAIN handed'
      ]_allvars

\* SKIP left a recipient with unsent domains behind and the first slice of the
\* next recipient has gone out
C28_Witness ==
    /\ signal = "skip_recipient"
    /\ hpc = "idle"
    /\ HasSession
    /\ slice.count > 0
    /\ slice.first = 0
    /\ \E p \in PassedUnsent : p[1] = slice.recipient - 1 /\ Handed(<<p[1], 1>>) > 0

\* ------------------------------------------------- claims on the messages
\* C29: when the message handled last was /start, the user has no session.
C29_StartResets ==
    last_text = "/start" => ~HasSession

\* ---------------------------------------------------- claims on the store
\* C30: while a campaign exists, its domain list is the list it was created
\* with, whatever has been added to, removed from or cleared in the store
\* since, and its domain cursor is an index of that list.
C30_ListFixed ==
    sess # NoCampaign =>
        /\ heap[sess.domains] = created
        /\ sess.current_domain_index < Len(heap[sess.domains])

\* a campaign past its first slice while the store has become another list
C30_Witness ==
    /\ sess # NoCampaign
    /\ sess.current_domain_index > 0
    /\ edits = 0
    /\ heap[dm_domains] # created

\* ------------------------------------------- claims on the JSON-flow bot
\* C31: a session gets to waiting_emails only in a _handle_smtp_config whose
\* text was JSON that passed validation and whose connection test succeeded,
\* and it then holds that configuration; after a _handle_smtp_config on a
\* preset keyword, on text that is not JSON, on a configuration that failed
\* validation or on a failed connection test the session is in waiting_smtp
\* with no smtp_config.
C31_Accepted ==
    /\ [](tlast.handler = "_handle_smtp_config"
            /\ (\/ tlast.keyword
                \/ ~tlast.json
                \/ tlast.validation # "valid"
                \/ tlast.connection # "success")
          => /\ tester_session.present
             /\ tester_session.state = "waiting_smtp"
             /\ tester_session.smtp_config = None)
    /\ [][tester_session'.state = "waiting_emails" /\ tester_session.state # "waiting_emails"
            => /\ tester_session.state = "waiting_smtp"
               /\ tlast'.handler = "_handle_smtp_config"
               /\ tlast'.json
               /\ tlast'.validation = "valid"
               /\ tlast'.connection = "success"
               /\ tester_session'.smtp_config = tlast'.config
               /\ tester_session'.smtp_config = tested'
       ]_allvars

\* a configuration was accepted after one was turned down
C31_Witness ==
    /\ tester_session.state = "waiting_emails"
    /\ tlast.handler = "_handle_smtp_config"
    /\ tlast.connection = "success"
    /\ "use_tls" \notin DOMAIN tester_session.smtp_config

\* C32: the engine is called only by a handler that found the session in
\* waiting_emails, with the configuration of the last connection test that
\* succeeded and with one valid address at least; an email list without a
\* valid address calls nothing and leaves the session in waiting_emails with
\* its configuration; once the engine was called and the results were
\* reported the user has no session, and a text message that follows gets the
\* "start with /test" prompt and nothing else.
C32_Sends ==
    /\ [](/\ tlast.called =>
                /\ tlast.handler = "_handle_email_list"
                /\ tlast.from = "waiting_emails"
                /\ tlast.config # None
                /\ tlast.config = tested
                /\ tlast.addresses > 0
                /\ Len(tlast.sent) = tlast.addresses
                /\ ~tester_session.present
          /\ tlast.handler = "_handle_email_list" /\ tlast.addresses = 0 =>
                /\ ~tlast.called
                /\ tester_session.present
                /\ tester_session.state = "waiting_emails"
                /\ tester_session.smtp_config = tested)
    /\ [][tlast.called /\ tlast'.handler \notin {"start", "help_command", "test_command"}
            => /\ tlast'.handler = "handle_message"
               /\ tlast'.reply = "start_with_test"
               /\ ~tlast'.called
               /\ ~tester_session'.present
       ]_allvars

\* two addresses went to the engine, one was delivered
C32_Witness ==
    /\ tlast.called
    /\ Len(tlast.sent) = 2
    /\ tlast.sent[1]
    /\ ~tlast.sent[2]
    /\ ~tester_session.present

\* ---------------------------------------- claims on the campaign counters
\* the sends the session has counted
Counted == session.total_successful + session.total_failed

\* C33: while a campaign lives, total_successful + total_failed is the number
\* of (recipient, domain) sends handed to the delivery engine since it was
\* created, none of them handed twice; and every slice adds the number of
\* its domains, which is between 1 and 5, to that sum.
C33_Counters ==
    /\ [](HasSession =>
            /\ Counted = Cardinality(DOMAIN handed)
            /\ \A p \in DOMAIN handed : handed[p] = 1)
    /\ [][hpc = "slice" /\ hpc' = "idle" =>
            /\ HasSession'
            /\ slice'.count \in 1..domains_per_batch
            /\ Cardinality(slice'.pairs) = slice'.count
            /\ session'.total_successful + session'.total_failed = Counted + slice'.count
            /\ session'.total_successful >= session.total_successful
            /\ session'.total_failed >= session.total_failed
       ]_allvars

\* three slices in, a full one and a short one among them, one send failed
C33_Witness ==
    /\ HasSession
    /\ hpc = "idle"
    /\ session.total_failed = 1
    /\ session.total_successful >= domains_per_batch + 2
    /\ slice.count \in 1..(domains_per_batch - 1)
    /\ session.current_recipient_index = 1

\* C34: whenever a campaign lives and no handler is in progress, the
\* recipient cursor is between 0 and the number of recipients and the domain
\* cursor is between 0 and the number of domains less one.
C34_Cursors ==
    HasSession /\ hpc = "idle" =>
        /\ session.current_recipient_index \in 0..Len(session.recipient_emails)
        /\ session.current_domain_index \in 0..(Len(session.domains) - 1)

\* after a SKIP and the last recipient's only slice the recipient cursor is at
\* the end of the list, and STATS was shown there
C34_Witness ==
    /\ HasSession
    /\ hpc = "idle"
    /\ signal = "show_stats"
    /\ ~plain
    /\ Len(session.recipient_emails) > 1
    /\ session.current_recipient_index = Len(session.recipient_emails)
    /\ session.total_successful > 0

\* C35: when CONTINUE has produced the final report, the "Total Emails" it
\* shows, recipients times domains (line 768), is the sum of the "Successful"
\* and "Failed" it shows.
C35_TotalEmails ==
    signal = "send_next_batch" /\ reply = "complete" =>
        camp.recipients * camp.domains = camp.counted

\* C36: CONTINUE never ends in an exception that leaves its handler; on a
\* session without a campaign it is answered with a report.
C36_ContinueHandled ==
    signal = "send_next_batch" => reply # "error"

\* ------------------------------------------------ claims on the rate limit
\* the messages of user let in during the rate_window seconds that start at t
InWindow(user, t) ==
    Len(SelectSeq(admitted[user], LAMBDA s : t <= s /\ s < t + rate_window))

\* the messages of user let in less than rate_window seconds ago
LetInLately(user) ==
    Len(SelectSeq(admitted[user], LAMBDA s : now - s < rate_window))

\* C37: for every user, no 60 seconds that start with a message let in hold
\* more than 10 messages let in, and the list kept for the user holds, of the
\* last 60 seconds, the messages let in and nothing else; a message is let in
\* exactly when fewer than 10 messages of its sender were let in during the 60
\* seconds before it, whatever was turned down meanwhile; a message turned
\* down leaves no record; and a message changes nothing that is kept for a
\* user other than its sender.
C37_RateLimit ==
    /\ [](\A user \in Users :
            /\ \A k \in DOMAIN admitted[user] :
                   InWindow(user, admitted[user][k]) <= max_requests_per_minute
            /\ Recent(user_rate_limits[user], now) = Recent(admitted[user], now))
    /\ [][now' = now =>
            /\ (routed' # "rate_limited") = (LetInLately(sender') < max_requests_per_minute)
            /\ routed' = "rate_limited" =>
                   /\ admitted' = admitted
                   /\ Recent(user_rate_limits'[sender'], now)
                        = Recent(user_rate_limits[sender'], now)
            /\ routed' # "rate_limited" =>
                   admitted'[sender'] = Append(admitted[sender'], now)
            /\ \A other \in Users \ {sender'} :
                   /\ user_rate_limits'[other] = user_rate_limits[other]
                   /\ admitted'[other] = admitted[other]
       ]_allvars

\* the user followed is turned down after more than 10 of their messages were
\* let in, some of them after the first ones had left the window, while
\* another user's messages were let in
C37_Witness ==
    /\ sender = user_id
    /\ routed = "rate_limited"
    /\ Len(admitted[user_id]) > max_requests_per_minute
    /\ Len(admitted["v"]) = MaxOtherTexts

\* ------------------------------------------- claims on the store's entries
\* C38: no two entries of the store have the same url, after any sequence of
\* add_domain, add_bulk_domains, remove_domain and clear_all_domains on a
\* store whose urls were pairwise distinct, whatever protocol and slashes the
\* texts carry and however often a bulk input names a domain.
C38_Unique ==
    \A j, k \in DOMAIN heap[dm_domains] :
        j # k => heap[dm_domains][j] # heap[dm_domains][k]

\* a bulk input of two lines put one url into the empty store and skipped
\* the other line, which named the same domain
C38_Witness ==
    /\ call.op = "add_bulk_domains"
    /\ call.added = 1
    /\ call.skipped = 1
    /\ Len(heap[dm_domains]) = 1

\* C39: a call of add_domain that returns False, and a call of
\* add_bulk_domains that returns success False with nothing added, leave the
\* store's list as it was before the call.
C39_FailureLeavesList ==
    [][(\/ call'.op = "add_domain" /\ ~call'.success
        \/ call'.op = "add_bulk_domains" /\ ~call'.success /\ call'.added = 0)
          => heap'[dm_domains'] = heap[dm_domains]
      ]_allvars

====
